---- MODULE Spec2Model ----
(***************************************************************************)
(* package-intel: the three registry tools (package_summary,               *)
(* release_timeline, maintenance_signals) as a state machine.              *)
(*                                                                         *)
(* Conventions of the model                                                *)
(*  - A JavaScript string is a sequence of one-character strings.          *)
(*  - null / undefined is the empty sequence None, a present value x is    *)
(*    Some(x) = <<x>>.                                                     *)
(*  - An instant (Date.getTime()) is an integer number of clock ticks,     *)
(*    TicksPerDay ticks to the day; a release date string is modelled by   *)
(*    the instant it parses to (registries emit ISO-8601 UTC timestamps,   *)
(*    for which string order and instant order agree).                     *)
(***************************************************************************)
EXTENDS Integers, Sequences, FiniteSets, TLC

(***************************************************************************)
(* Bounds of the model                                                     *)
(***************************************************************************)
\* resolution of the clock: ticks per day (the code's clock counts ms)
TicksPerDay == 2
\* longest release history enumerated entry by entry, in every order
MaxSmall == 3

\* ticks of the timeout timer from the request to its expiry (the code's
\* timer counts config.requestTimeout ms)
TimeoutTicks == 2

None == <<>>
Some(v) == <<v>>

Abs(n) == IF n < 0 THEN -n ELSE n

(***************************************************************************)
(* IEEE-754 binary64 arithmetic on the values the weighted score takes.    *)
(* A non-negative double below 4 is held exactly as hi * 2^29 + lo in      *)
(* units of 2^-55 (the unit in the last place of 0.2, the smallest         *)
(* operand); FRound rounds a sum to 53 significant bits, ties to even.     *)
(***************************************************************************)
LimbBase == 2^29

F05 == [hi |-> 33554432, lo |-> 0]          \* 0.5 = 0x3FE0000000000000
F03 == [hi |-> 20132659, lo |-> 107374182]  \* 0.3 = 0x3FD3333333333333
F02 == [hi |-> 13421772, lo |-> 429496730]  \* 0.2 = 0x3FC999999999999A
F07 == [hi |-> 46976204, lo |-> 429496728]  \* 0.7 = 0x3FE6666666666666
F15 == [hi |-> 100663296, lo |-> 0]         \* 1.5 = 0x3FF8000000000000

FNorm(hi, lo) == [hi |-> hi + (lo \div LimbBase), lo |-> lo % LimbBase]

\* units in the last place of the binade the exact value x lies in
FUlp(x) ==
  IF x.hi >= 2^27 THEN 16
  ELSE IF x.hi >= 2^26 THEN 8
  ELSE IF x.hi >= 2^25 THEN 4
  ELSE IF x.hi >= 2^24 THEN 2
  ELSE 1

FRound(x) ==
  LET q == FUlp(x)
      r == x.lo % q
      down == x.lo - r
      up == (2 * r > q) \/ (2 * r = q /\ (x.lo \div q) % 2 = 1)
  IN  FNorm(x.hi, IF up THEN down + q ELSE down)

\* s * w for a score s in {0, 1, 2}: exact in binary64 (a power of two or zero)
FScale(s, w) == FNorm(s * w.hi, s * w.lo)

FAdd(x, y) == FRound(FNorm(x.hi + y.hi, x.lo + y.lo))

FGe(x, y) == x.hi > y.hi \/ (x.hi = y.hi /\ x.lo >= y.lo)

(***************************************************************************)
(* Maintenance scorer (tools/maintenance-signals)                          *)
(***************************************************************************)
MaintenanceRating == {"good", "fair", "poor"}

\* daysSinceLastRelease when no release date is known
Infinity == 2000000000

daysBetween(date1, date2) == Abs(date1 - date2) \div TicksPerDay

\* mutant: the thresholds are taken inclusive
rateRecency_Inclusive(daysSinceLastRelease) ==
  IF daysSinceLastRelease <= 90 THEN "good"
  ELSE IF daysSinceLastRelease <= 365 THEN "fair"
  ELSE "poor"

rateRecency(daysSinceLastRelease) ==
  IF daysSinceLastRelease < 90 THEN "good"
  ELSE IF daysSinceLastRelease < 365 THEN "fair"
  ELSE "poor"

(***************************************************************************)
(* releasesPerYear is kept as the exact fraction num / den (den > 0).  The *)
(* code holds it in a double: count / (days / 365).  days is a whole       *)
(* number, so days / 365 is never within rounding distance of 0.1, and a   *)
(* quotient that is exactly 4 or exactly 1 is computed exactly, while any  *)
(* other quotient differs from them by at least 1 / days: the comparisons  *)
(* on the fraction are the comparisons on the double.                      *)
(***************************************************************************)
Frac(n, d) == [num |-> n, den |-> d]

FracGe(x, k) == x.num >= k * x.den

rateFrequency(releasesPerYear) ==
  IF FracGe(releasesPerYear, 4) THEN "good"
  ELSE IF FracGe(releasesPerYear, 1) THEN "fair"
  ELSE "poor"

\* mutant: the thresholds are taken exclusive
rateMaturity_Exclusive(totalVersions) ==
  IF totalVersions > 10 THEN "good"
  ELSE IF totalVersions > 3 THEN "fair"
  ELSE "poor"

rateMaturity(totalVersions) ==
  IF totalVersions >= 10 THEN "good"
  ELSE IF totalVersions >= 3 THEN "fair"
  ELSE "poor"

scores(rating) == CASE rating = "good" -> 2 [] rating = "fair" -> 1 [] rating = "poor" -> 0

\* mutant: the cut points are taken exclusive
calculateOverallScore_ExclusiveCuts(recency, frequency, maturity, isDeprecated) ==
  IF isDeprecated THEN "poor"
  ELSE
    LET weightedScore ==
          FAdd(FAdd(FScale(scores(recency), F05), FScale(scores(frequency), F03)),
               FScale(scores(maturity), F02))
    IN  IF FGe(weightedScore, F15) /\ weightedScore # F15 THEN "good"
        ELSE IF FGe(weightedScore, F07) /\ weightedScore # F07 THEN "fair"
        ELSE "poor"

\* mutant: the maturity term is left out of the sum
calculateOverallScore_NoMaturity(recency, frequency, maturity, isDeprecated) ==
  IF isDeprecated THEN "poor"
  ELSE
    LET weightedScore ==
          FAdd(FScale(scores(recency), F05), FScale(scores(frequency), F03))
    IN  IF FGe(weightedScore, F15) THEN "good"
        ELSE IF FGe(weightedScore, F07) THEN "fair"
        ELSE "poor"

\* mutant: the deprecation flag is not consulted
calculateOverallScore_NoDeprecation(recency, frequency, maturity, isDeprecated) ==
  LET weightedScore ==
        FAdd(FAdd(FScale(scores(recency), F05), FScale(scores(frequency), F03)),
             FScale(scores(maturity), F02))
  IN  IF FGe(weightedScore, F15) THEN "good"
      ELSE IF FGe(weightedScore, F07) THEN "fair"
      ELSE "poor"

\* mutant: the weights of recency and maturity are exchanged
calculateOverallScore_MaturityHeaviest(recency, frequency, maturity, isDeprecated) ==
  IF isDeprecated THEN "poor"
  ELSE
    LET weightedScore ==
          FAdd(FAdd(FScale(scores(recency), F02), FScale(scores(frequency), F03)),
               FScale(scores(maturity), F05))
    IN  IF FGe(weightedScore, F15) THEN "good"
        ELSE IF FGe(weightedScore, F07) THEN "fair"
        ELSE "poor"

calculateOverallScore(recency, frequency, maturity, isDeprecated) ==
  IF isDeprecated THEN "poor"
  ELSE
    LET weightedScore ==
          FAdd(FAdd(FScale(scores(recency), F05), FScale(scores(frequency), F03)),
               FScale(scores(maturity), F02))
    IN  IF FGe(weightedScore, F15) THEN "good"
        ELSE IF FGe(weightedScore, F07) THEN "fair"
        ELSE "poor"


(***************************************************************************)
(* calculateReleasesPerYear: the dates are sorted ascending (a stable      *)
(* insertion sort stands for Array.prototype.sort), the span is taken      *)
(* between the first and the last of the sorted copy.                      *)
(***************************************************************************)
\* Array.prototype.sort is stable: the result holds the dates in ascending
\* order, equal dates in the order of the input; position[i] is where the
\* i-th date of the input lands
sortAscending(dates) ==
  LET n == Len(dates)
      position == [i \in 1..n |->
                     1 + Cardinality({j \in 1..n : \/ dates[j] < dates[i]
                                                   \/ (dates[j] = dates[i] /\ j < i)})] \o <<>>
  IN  [k \in 1..n |-> dates[CHOOSE i \in 1..n : position[i] = k]] \o <<>>

\* mutant: the span is taken between the first and the last listed date
calculateReleasesPerYear_Unsorted(releaseDates) ==
  IF Len(releaseDates) < 2 THEN Frac(0, 1)
  ELSE
    LET days == daysBetween(releaseDates[1], releaseDates[Len(releaseDates)])
    IN  IF 10 * days < 365 THEN Frac(Len(releaseDates) * 10, 1)
        ELSE Frac(Len(releaseDates) * 365, days)

\* mutant: two releases are not enough for a rate
calculateReleasesPerYear_AtLeastThree(releaseDates) ==
  IF Len(releaseDates) <= 2 THEN Frac(0, 1)
  ELSE
    LET sorted == sortAscending(releaseDates)
        days == daysBetween(sorted[1], sorted[Len(sorted)])
    IN  IF 10 * days < 365 THEN Frac(Len(releaseDates) * 10, 1)
        ELSE Frac(Len(releaseDates) * 365, days)

\* mutant: a short history is one of under 30 days
calculateReleasesPerYear_UnderThirtyDays(releaseDates) ==
  IF Len(releaseDates) < 2 THEN Frac(0, 1)
  ELSE
    LET sorted == sortAscending(releaseDates)
        days == daysBetween(sorted[1], sorted[Len(sorted)])
    IN  IF days < 30 THEN Frac(Len(releaseDates) * 10, 1)
        ELSE Frac(Len(releaseDates) * 365, days)

calculateReleasesPerYear(releaseDates) ==
  IF Len(releaseDates) < 2 THEN Frac(0, 1)
  ELSE
    LET sorted == sortAscending(releaseDates)
        firstRelease == sorted[1]
        lastRelease == sorted[Len(sorted)]
        days == daysBetween(firstRelease, lastRelease)
    IN  \* yearsSpan = days / 365; yearsSpan < 0.1
        IF 10 * days < 365 THEN Frac(Len(releaseDates) * 10, 1)
        ELSE Frac(Len(releaseDates) * 365, days)

\* Math.round(releasesPerYear * 100), in hundredths (Math.round rounds a half up)
roundHundredths(f) == (200 * f.num + f.den) \div (2 * f.den)


(***************************************************************************)
(* Strings                                                                 *)
(***************************************************************************)
DigitChars == <<"0", "1", "2", "3", "4", "5", "6", "7", "8", "9">>

RECURSIVE Digits(_)
Digits(n) ==
  IF n < 10 THEN <<DigitChars[n + 1]>>
  ELSE Digits(n \div 10) \o <<DigitChars[(n % 10) + 1]>>

UpperChars == <<"A", "B", "C", "D", "E", "F", "G", "H", "I", "J", "K", "L", "M",
                "N", "O", "P", "Q", "R", "S", "T", "U", "V", "W", "X", "Y", "Z">>
LowerChars == <<"a", "b", "c", "d", "e", "f", "g", "h", "i", "j", "k", "l", "m",
                "n", "o", "p", "q", "r", "s", "t", "u", "v", "w", "x", "y", "z">>

toLowerCase(c) ==
  IF \E i \in 1..26 : UpperChars[i] = c
  THEN LowerChars[CHOOSE i \in 1..26 : UpperChars[i] = c]
  ELSE c

WhiteSpace == {" ", "\t", "\n"}

RECURSIVE trimStart(_)
trimStart(s) == IF s # <<>> /\ Head(s) \in WhiteSpace THEN trimStart(Tail(s)) ELSE s

RECURSIVE trimEnd(_)
trimEnd(s) ==
  IF s # <<>> /\ s[Len(s)] \in WhiteSpace THEN trimEnd(SubSeq(s, 1, Len(s) - 1)) ELSE s

\* String.prototype.trim
trim(s) == trimEnd(trimStart(s))

\* encodeURIComponent on the characters package names are drawn from
encodeChar(c) ==
  CASE c = " " -> <<"%", "2", "0">>
    [] c = "/" -> <<"%", "2", "F">>
    [] c = "@" -> <<"%", "4", "0">>
    [] OTHER -> <<c>>

RECURSIVE encodeURIComponent(_)
encodeURIComponent(s) ==
  IF s = <<>> THEN <<>> ELSE encodeChar(Head(s)) \o encodeURIComponent(Tail(s))

\* a UTF-16 code unit of a surrogate pair on its own
LoneSurrogate == "\\uD800"

\* encodeURIComponent throws URIError: URI malformed
malformedURI(s) == \E i \in DOMAIN s : s[i] = LoneSurrogate

startsWith(s, prefix) ==
  Len(prefix) <= Len(s) /\ SubSeq(s, 1, Len(prefix)) = prefix

endsWith(s, suffix) ==
  Len(suffix) <= Len(s) /\ SubSeq(s, Len(s) - Len(suffix) + 1, Len(s)) = suffix

\* s.replace(pattern, replacement) for a literal pattern: the first occurrence
replaceFirst(s, pattern, replacement) ==
  LET at == {i \in 1..(Len(s) - Len(pattern) + 1) :
               SubSeq(s, i, i + Len(pattern) - 1) = pattern}
  IN  IF at = {} THEN s
      ELSE LET i == CHOOSE k \in at : \A j \in at : k <= j
           IN  SubSeq(s, 1, i - 1) \o replacement \o SubSeq(s, i + Len(pattern), Len(s))

\* s.replace(/^prefix/, replacement)
replacePrefix(s, prefix, replacement) ==
  IF startsWith(s, prefix) THEN replacement \o SubSeq(s, Len(prefix) + 1, Len(s)) ELSE s

\* s.replace(/suffix$/, '')
dropSuffix(s, suffix) ==
  IF endsWith(s, suffix) THEN SubSeq(s, 1, Len(s) - Len(suffix)) ELSE s

KeywordSeparators == {",", " ", "\t", "\n"}

RECURSIVE split(_, _)
\* s.split(/[,\s]+/).filter((k) => k.length > 0), current the token being read
split(s, current) ==
  IF s = <<>> THEN (IF current = <<>> THEN <<>> ELSE <<current>>)
  ELSE IF Head(s) \in KeywordSeparators
       THEN (IF current = <<>> THEN <<>> ELSE <<current>>) \o split(Tail(s), <<>>)
       ELSE split(Tail(s), Append(current, Head(s)))

(***************************************************************************)
(* Configuration (config.ts)                                               *)
(***************************************************************************)
Ecosystems == {"npm", "pypi", "crates"}

REGISTRY_URLS ==
  [npm |-> "https://registry.npmjs.org",
   pypi |-> "https://pypi.org/pypi",
   crates |-> "https://crates.io/api/v1/crates"]

releaseTimelineLimit == 20
maxReleaseTimelineLimit == 100

\* the registry URL of a package, kept as the parts of its template literal
registryUrl(ecosystem, name) ==
  [base |-> REGISTRY_URLS[ecosystem],
   name |-> encodeURIComponent(name),
   suffix |-> IF ecosystem = "pypi" THEN "/json" ELSE ""]

(***************************************************************************)
(* Repository URL normaliser (tools/package-summary).  A repository is     *)
(* absent, a string, or an object carrying a url.                          *)
(***************************************************************************)
RepoString(url) == [kind |-> "string", url |-> url]
RepoObject(url) == [kind |-> "object", url |-> url]

GitPlus == <<"g", "i", "t", "+">>
GitScheme == <<"g", "i", "t", ":", "/", "/">>
HttpsScheme == <<"h", "t", "t", "p", "s", ":", "/", "/">>
DotGit == <<".", "g", "i", "t">>
GitAt == <<"g", "i", "t", "@">>

parseRepositoryUrl(repo) ==
  IF repo = None \/ (repo[1].kind = "string" /\ repo[1].url = <<>>) THEN None
  ELSE IF repo[1].url = <<>> THEN None
  ELSE
    LET cleaned == dropSuffix(replacePrefix(replacePrefix(repo[1].url, GitPlus, <<>>),
                                            GitScheme, HttpsScheme),
                              DotGit)
    IN  IF startsWith(cleaned, GitAt)
        THEN Some(replaceFirst(replaceFirst(cleaned, GitAt, HttpsScheme), <<":">>, <<"/">>))
        ELSE Some(cleaned)

(***************************************************************************)
(* Prerelease classifier (tools/release-timeline)                          *)
(*   /[-.]?(alpha|beta|rc|dev|pre|canary|next|snapshot|preview|nightly|a|b)\d*[-.]?/i *)
(* The pattern is not anchored: it matches when, at some position, an      *)
(* optional separator is followed by one of the markers; the digits and    *)
(* the trailing separator are optional and never make a match fail.        *)
(***************************************************************************)
PrereleaseMarkers ==
  { <<"a", "l", "p", "h", "a">>, <<"b", "e", "t", "a">>, <<"r", "c">>,
    <<"d", "e", "v">>, <<"p", "r", "e">>, <<"c", "a", "n", "a", "r", "y">>,
    <<"n", "e", "x", "t">>, <<"s", "n", "a", "p", "s", "h", "o", "t">>,
    <<"p", "r", "e", "v", "i", "e", "w">>, <<"n", "i", "g", "h", "t", "l", "y">>,
    <<"a">>, <<"b">> }

markerAt(s, i, marker) ==
  /\ i >= 1
  /\ i + Len(marker) - 1 <= Len(s)
  /\ \A k \in 1..Len(marker) : toLowerCase(s[i + k - 1]) = marker[k]

isPrerelease(version) ==
  \E i \in 1..Len(version) : \E marker \in PrereleaseMarkers :
     \/ markerAt(version, i, marker)
     \/ (version[i] \in {"-", "."} /\ markerAt(version, i + 1, marker))



(***************************************************************************)
(* JavaScript values a caller may pass as `name` or `limit`.  A number is  *)
(* NaN or twice / 2 (whole and half values); every value has the same      *)
(* fields so that any two can be compared.                                 *)
(***************************************************************************)
JsValue(t, nan, twice, s) == [t |-> t, nan |-> nan, twice |-> twice, s |-> s]
Undefined == JsValue("undefined", FALSE, 0, <<>>)
Null == JsValue("null", FALSE, 0, <<>>)
Str(s) == JsValue("string", FALSE, 0, s)
Num(n) == JsValue("number", FALSE, 2 * n, <<>>)
Halves(h) == JsValue("number", FALSE, h, <<>>)
NaN == JsValue("number", TRUE, 0, <<>>)

\* x < k and x > k for a number x and a whole k: false when x is NaN
JsLt(x, k) == ~x.nan /\ x.twice < 2 * k
JsGt(x, k) == ~x.nan /\ x.twice > 2 * k

\* String(x) of a number
numberToString(x) ==
  IF x.nan THEN <<"N", "a", "N">>
  ELSE (IF x.twice < 0 THEN <<"-">> ELSE <<>>)
       \o Digits(Abs(x.twice) \div 2)
       \o (IF Abs(x.twice) % 2 = 1 THEN <<".", "5">> ELSE <<>>)

\* ToIntegerOrInfinity: NaN is 0, otherwise truncation towards zero
toInteger(x) ==
  IF x.nan THEN 0
  ELSE IF x.twice < 0 THEN -(Abs(x.twice) \div 2) ELSE x.twice \div 2

Min(a, b) == IF a <= b THEN a ELSE b
Max(a, b) == IF a >= b THEN a ELSE b

\* Array.prototype.slice(0, end)
slice0(arr, end) ==
  LET relativeEnd == toInteger(end)
      final == IF relativeEnd < 0 THEN Max(Len(arr) + relativeEnd, 0)
               ELSE Min(relativeEnd, Len(arr))
  IN  SubSeq(arr, 1, final)

(***************************************************************************)
(* Upstream payloads (types.ts: NpmPackageResponse, PypiPackageResponse,   *)
(* CratesPackageResponse), built from a release history: the sequence of   *)
(* release instants in the order the registry lists them.                  *)
(***************************************************************************)
Day(d) == d * TicksPerDay

\* the instant the histories are laid out against
RefTick == Day(6000)

PackageName == <<"p", "k", "g">>

Created == <<"c", "r", "e", "a", "t", "e", "d">>
Modified == <<"m", "o", "d", "i", "f", "i", "e", "d">>

\* the i-th listed version: "1.i.0", every third one a release candidate
VersionOf(i) ==
  <<"1", ".">> \o Digits(i) \o <<".", "0">>
  \o (IF i % 3 = 2 THEN <<"-", "r", "c", ".", "1">> ELSE <<>>)

DeprecationNotice == "This package is deprecated"

HomepageUrl == <<"h", "t", "t", "p", "s", ":", "/", "/", "p", "k", "g", ".", "e", "x", "a", "m", "p", "l", "e">>
GitPlusUrl == <<"g", "i", "t", "+", "h", "t", "t", "p", "s", ":", "/", "/", "g", "i", "t", "h", "u", "b", ".", "c", "o", "m", "/", "o", "/", "r", ".", "g", "i", "t">>
GitAtUrl == <<"g", "i", "t", "@", "g", "i", "t", "h", "u", "b", ".", "c", "o", "m", ":", "o", "/", "r", ".", "g", "i", "t">>
PlainUrl == <<"h", "t", "t", "p", "s", ":", "/", "/", "g", "i", "t", "h", "u", "b", ".", "c", "o", "m", "/", "o", "/", "r">>

\* a license is a string or an object that may carry a type
LicenseString(text) == [kind |-> "string", text |-> Some(text)]
LicenseObject(type) == [kind |-> "object", text |-> type]

NpmDecorations == {"plain", "deprecated", "untagged"}

\* time lists created and modified first; created predates and modified
\* postdates every release, as the registry maintains them
NpmPayload(h, deco) ==
  LET n == Len(h)
      latest == IF n = 0 \/ deco = "untagged" THEN None ELSE Some(VersionOf(n))
      \* "deprecated" keeps the metadata on the version only
      onVersion == deco = "deprecated"
  IN  [name |-> PackageName,
       distTagsLatest |-> latest,
       description |-> IF deco = "plain" THEN Some("A package")
                       ELSE IF deco = "untagged" THEN Some("") ELSE None,
       homepage |-> IF deco = "plain" THEN Some(HomepageUrl) ELSE None,
       repository |-> IF deco = "plain" THEN Some(RepoString(GitPlusUrl)) ELSE None,
       license |-> IF deco = "plain" THEN Some(LicenseString("MIT")) ELSE None,
       keywords |-> IF deco = "plain" THEN Some(<<"registry", "lookup">>) ELSE None,
       versions |->
         IF n = 0 THEN <<>>
         ELSE <<[version |-> VersionOf(n),
                 description |-> IF onVersion THEN Some("From the version") ELSE None,
                 homepage |-> IF onVersion THEN Some(HomepageUrl) ELSE None,
                 repository |-> IF onVersion THEN Some(RepoObject(GitAtUrl)) ELSE None,
                 license |-> IF onVersion THEN Some(LicenseObject(Some("ISC"))) ELSE None,
                 keywords |-> IF onVersion THEN Some(<<"old">>) ELSE None,
                 deprecated |-> IF deco = "deprecated" THEN Some(DeprecationNotice)
                                ELSE None]>>,
       time |->
         <<[key |-> Created, date |-> RefTick - Day(5900)],
           [key |-> Modified, date |-> RefTick + Day(2)]>>
         \o [i \in 1..n |-> [key |-> VersionOf(i), date |-> h[i]]]]

Inactive == <<"Development", "Status", "::", "7", "-", "Inactive">>
Planning == <<"Development", "Status", "::", "1", "-", "Planning">>
Stable == <<"Development", "Status", "::", "5", "-", "Production/Stable">>

File(iso, plain) == [upload_time_iso_8601 |-> iso, upload_time |-> plain]

\* the upload records of the i-th version, released at instant d
PypiFiles(style, i, d) ==
  CASE style = "single" -> <<File(Some(d), Some(d))>>
    \* two uploads, the later one listed first
    [] style = "multi" -> <<File(Some(d + Day(1)), Some(d + Day(1))), File(Some(d), Some(d))>>
    \* a version without files, one with only upload_time, one whose first
    \* record carries no time
    [] style = "sparse" ->
         IF i % 3 = 1 THEN <<>>
         ELSE IF i % 3 = 2 THEN <<File(None, Some(d))>>
         ELSE <<File(None, None), File(Some(d), Some(d))>>

ProjectUrl(label, url) == [label |-> label, url |-> url]

PypiDecorations ==
  { [style |-> "single", classifiers |-> <<>>,
     summary |-> Some("A package"), home_page |-> Some(HomepageUrl),
     project_url |-> Some(PlainUrl),
     project_urls |-> Some(<<ProjectUrl("Source", GitPlusUrl), ProjectUrl("Repository", PlainUrl)>>),
     license |-> Some("MIT"),
     keywords |-> Some(<<"a", ",", " ", "b", ",", ",", "c">>)],
    [style |-> "multi", classifiers |-> <<Stable, Inactive>>,
     summary |-> None, home_page |-> Some(<<>>),
     project_url |-> Some(PlainUrl),
     project_urls |-> None,
     license |-> None,
     keywords |-> None],
    [style |-> "sparse", classifiers |-> <<Stable>>,
     summary |-> Some(""), home_page |-> None,
     project_url |-> None,
     project_urls |-> Some(<<ProjectUrl("Homepage", HomepageUrl)>>),
     license |-> Some(""),
     keywords |-> Some(<<" ", "x", " ", " ", "y", " ">>)],
    [style |-> "single", classifiers |-> <<Planning>>,
     summary |-> Some("Planned"), home_page |-> Some(HomepageUrl),
     project_url |-> None,
     project_urls |-> Some(<<ProjectUrl("Source Code", GitAtUrl), ProjectUrl("GitHub", PlainUrl)>>),
     license |-> Some("BSD"),
     keywords |-> Some(<<>>)] }

PypiPayload(h, deco) ==
  [info |-> [name |-> PackageName,
             version |-> VersionOf(Len(h)),
             summary |-> deco.summary,
             home_page |-> deco.home_page,
             project_url |-> deco.project_url,
             project_urls |-> deco.project_urls,
             license |-> deco.license,
             keywords |-> deco.keywords,
             classifiers |-> deco.classifiers],
   releases |-> [i \in 1..Len(h) |->
                   [version |-> VersionOf(i), files |-> PypiFiles(deco.style, i, h[i])]]]

CratesDecorations == {"none", "all", "even"}

CratesPayload(h, deco) ==
  [crate |-> [name |-> PackageName,
              description |-> IF deco = "none" THEN Some("A crate") ELSE None,
              homepage |-> IF deco = "none" THEN Some(HomepageUrl) ELSE None,
              repository |-> IF deco = "all" THEN None ELSE Some(PlainUrl),
              max_version |-> VersionOf(Len(h)),
              max_stable_version |-> IF deco = "none" /\ Len(h) > 1
                                     THEN Some(VersionOf(Len(h) - 1)) ELSE None,
              downloads |-> 1000 * Len(h),
              recent_downloads |-> IF deco = "none" THEN Some(Len(h))
                                   ELSE IF deco = "even" THEN Some(0) ELSE None,
              keywords |-> IF deco = "none" THEN Some(<<"registry">>) ELSE None],
   versions |-> [i \in 1..Len(h) |->
                   [num |-> VersionOf(i),
                    created_at |-> h[i],
                    license |-> IF deco = "none" THEN Some("MIT")
                                ELSE IF deco = "even" THEN Some("") ELSE None,
                    yanked |-> (deco = "all") \/ (deco = "even" /\ i % 2 = 0)]]]

\* the registries the package may live in, for a set of histories
Registries(histories) ==
  {[ecosystem |-> "npm", data |-> NpmPayload(h, d)] : h \in histories, d \in NpmDecorations}
  \cup {[ecosystem |-> "pypi", data |-> PypiPayload(h, d)] : h \in histories, d \in PypiDecorations}
  \cup {[ecosystem |-> "crates", data |-> CratesPayload(h, d)] : h \in histories, d \in CratesDecorations}

\* n >= 2 releases spread evenly (to the tick) over spanDays, the last at lastTick
Spread(n, spanDays, lastTick) ==
  [i \in 1..n |-> lastTick - Day(spanDays) + (Day(spanDays) * (i - 1)) \div (n - 1)]

\* every history of at most MaxSmall releases at the given instants, in every order
SmallHistories(dates) == UNION {[1..k -> dates] : k \in 0..MaxSmall}



(***************************************************************************)
(* Response envelope                                                       *)
(***************************************************************************)
createErrorResponse(code, message, details, t) ==
  [ok |-> FALSE,
   error |-> [code |-> code, message |-> message, details |-> details],
   meta |-> [retrieved_at |-> t]]

successResponse(data, url, nextCursor, t) ==
  [ok |-> TRUE,
   data |-> data,
   meta |-> [source |-> url,
             retrieved_at |-> t,
             pagination |-> [next_cursor |-> nextCursor],
             warnings |-> <<>>]]

(***************************************************************************)
(* package_summary adapters                                                *)
(***************************************************************************)
\* a || b on optional values that are falsy when absent or empty
orElse(a, b, empty) == IF a # None /\ a[1] # empty THEN a ELSE b

\* a || null
orNull(a, empty) == orElse(a, None, empty)

\* record?.field
fieldOf(record, field) == IF record = None THEN None ELSE record[1][field]

\* data.versions[version]
versionData(data, version) ==
  IF \E i \in 1..Len(data.versions) : data.versions[i].version = version
  THEN Some(data.versions[CHOOSE i \in 1..Len(data.versions) : data.versions[i].version = version])
  ELSE None

Unknown == <<"u", "n", "k", "n", "o", "w", "n">>

summaryData(name, version, description, homepage, repository, license, keywords, downloads) ==
  [name |-> name, version |-> version, description |-> description, homepage |-> homepage,
   repository |-> repository, license |-> license, keywords |-> keywords,
   downloads |-> downloads]

npmSummary(data) ==
  LET latestVersion == data.distTagsLatest
      latestData == IF orNull(latestVersion, <<>>) # None
                    THEN versionData(data, latestVersion[1]) ELSE None
      versionLicense == fieldOf(latestData, "license")
  IN  summaryData(
        data.name,
        orElse(latestVersion, Some(Unknown), <<>>)[1],
        orNull(orElse(data.description, fieldOf(latestData, "description"), ""), ""),
        orNull(orElse(data.homepage, fieldOf(latestData, "homepage"), <<>>), <<>>),
        parseRepositoryUrl(IF data.repository # None
                              /\ ~(data.repository[1].kind = "string" /\ data.repository[1].url = <<>>)
                           THEN data.repository ELSE fieldOf(latestData, "repository")),
        IF data.license # None /\ data.license[1].kind = "string" THEN data.license[1].text
        ELSE IF versionLicense # None /\ versionLicense[1].kind = "string"
             THEN versionLicense[1].text
        ELSE IF versionLicense # None THEN orNull(versionLicense[1].text, "")
        ELSE None,
        IF data.keywords # None THEN data.keywords[1]
        ELSE IF fieldOf(latestData, "keywords") # None THEN fieldOf(latestData, "keywords")[1]
        ELSE <<>>,
        None)

\* info.project_urls[label]
projectUrl(urls, label) ==
  IF \E i \in 1..Len(urls) : urls[i].label = label
  THEN Some(urls[CHOOSE i \in 1..Len(urls) : urls[i].label = label].url)
  ELSE None

RepositoryLabels == <<"Repository", "Source", "GitHub", "Source Code">>

RECURSIVE probe(_, _)
\* urls.Repository || urls.Source || urls.GitHub || urls['Source Code'] || null
probe(urls, labels) ==
  IF labels = <<>> THEN None
  ELSE orElse(projectUrl(urls, Head(labels)), probe(urls, Tail(labels)), <<>>)

pypiSummary(data) ==
  LET info == data.info
  IN  summaryData(
        info.name,
        info.version,
        info.summary,
        orElse(info.home_page, info.project_url, <<>>),
        IF info.project_urls # None THEN probe(info.project_urls[1], RepositoryLabels) ELSE None,
        info.license,
        IF orNull(info.keywords, <<>>) # None THEN split(info.keywords[1], <<>>) ELSE <<>>,
        None)

cratesSummary(data) ==
  LET crate == data.crate
      latestVersion ==
        IF \E i \in 1..Len(data.versions) : data.versions[i].num = crate.max_version
        THEN Some(data.versions[CHOOSE i \in 1..Len(data.versions) :
                                  /\ data.versions[i].num = crate.max_version
                                  /\ \A j \in 1..(i - 1) : data.versions[j].num # crate.max_version])
        ELSE None
  IN  summaryData(
        crate.name,
        orElse(crate.max_stable_version, Some(crate.max_version), <<>>)[1],
        crate.description,
        crate.homepage,
        crate.repository,
        orNull(fieldOf(latestVersion, "license"), ""),
        IF crate.keywords # None THEN crate.keywords[1] ELSE <<>>,
        Some([total |-> crate.downloads,
              weekly |-> IF crate.recent_downloads # None /\ crate.recent_downloads[1] # 0
                         THEN crate.recent_downloads ELSE None]))

(***************************************************************************)
(* maintenance_signals adapters                                            *)
(***************************************************************************)
RECURSIVE latestDate(_, _)
\* the loop's lastReleaseDate: replaced by every strictly later date
latestDate(dates, lastReleaseDate) ==
  IF dates = <<>> THEN lastReleaseDate
  ELSE latestDate(Tail(dates),
                  IF lastReleaseDate = None \/ Head(dates) > lastReleaseDate[1]
                  THEN Some(Head(dates)) ELSE lastReleaseDate)

\* the part the three adapters share: from the collected dates to the data
signalsData(ecosystem, packageName, releaseDates, isDeprecated, deprecationMessage, t) ==
  LET lastReleaseDate == latestDate(releaseDates, None)
      daysSinceLastRelease ==
        IF lastReleaseDate # None THEN daysBetween(t, lastReleaseDate[1]) ELSE Infinity
      releasesPerYear == calculateReleasesPerYear(releaseDates)
      totalVersions == Len(releaseDates)
      recency == rateRecency(daysSinceLastRelease)
      frequency == rateFrequency(releasesPerYear)
      maturity == rateMaturity(totalVersions)
      maintenanceScore == calculateOverallScore(recency, frequency, maturity, isDeprecated)
  IN  [package_name |-> packageName,
       ecosystem |-> ecosystem,
       days_since_last_release |->
         IF daysSinceLastRelease = Infinity THEN -1 ELSE daysSinceLastRelease,
       last_release_date |-> lastReleaseDate,
       releases_per_year |-> roundHundredths(releasesPerYear),
       total_versions |-> totalVersions,
       is_deprecated |-> isDeprecated,
       deprecation_message |-> deprecationMessage,
       maintenance_score |-> maintenanceScore,
       score_factors |-> [recency |-> recency, frequency |-> frequency, maturity |-> maturity]]

\* a filter that skips created only
isReleaseKey_OnlyCreated(entry) == entry.key # Created

isReleaseKey(entry) == entry.key # Created /\ entry.key # Modified

npmSignals(data, t) ==
  LET entries == SelectSeq(data.time, isReleaseKey)
      releaseDates == [i \in 1..Len(entries) |-> entries[i].date]
      latestVersion == data.distTagsLatest
      latestData == IF latestVersion = None THEN None ELSE versionData(data, latestVersion[1])
      isDeprecated == latestData # None /\ latestData[1].deprecated # None
      deprecationMessage == IF isDeprecated THEN latestData[1].deprecated ELSE None
  IN  signalsData("npm", data.name, releaseDates, isDeprecated, deprecationMessage, t)

\* f.upload_time_iso_8601 || f.upload_time
uploadTime(f) == IF f.upload_time_iso_8601 # None THEN f.upload_time_iso_8601 ELSE f.upload_time

\* c.includes(pattern), on the words of a classifier
includes(c, pattern) ==
  \E i \in 1..(Len(c) - Len(pattern) + 1) : SubSeq(c, i, i + Len(pattern) - 1) = pattern

pypiFirstUpload(release) ==
  IF release.files = <<>> THEN None ELSE uploadTime(release.files[1])

hasFirstUpload(release) == pypiFirstUpload(release) # None

pypiSignals(data, t) ==
  LET dated == SelectSeq(data.releases, hasFirstUpload)
      releaseDates == [i \in 1..Len(dated) |-> pypiFirstUpload(dated[i])[1]]
      isDeprecated ==
        \E i \in 1..Len(data.info.classifiers) :
           \/ includes(data.info.classifiers[i], Inactive)
           \/ includes(data.info.classifiers[i], Planning)
  IN  signalsData("pypi", data.info.name, releaseDates, isDeprecated, None, t)

\* a filter that keeps yanked versions
notYanked_KeepAll(v) == v.yanked \/ ~v.yanked

notYanked(v) == ~v.yanked

cratesSignals(data, t) ==
  LET kept == SelectSeq(data.versions, notYanked)
      releaseDates == [i \in 1..Len(kept) |-> kept[i].created_at]
      isDeprecated == \A i \in 1..Len(data.versions) : data.versions[i].yanked
  IN  signalsData("crates", data.crate.name, releaseDates, isDeprecated, None, t)

(***************************************************************************)
(* release_timeline adapters                                               *)
(***************************************************************************)
ReleaseEntry(version, date) ==
  [version |-> version, date |-> date, is_prerelease |-> isPrerelease(version)]

\* releases.sort((a, b) => time(b.date) - time(a.date)): stable, latest first
sortDescending(releases) ==
  LET n == Len(releases)
      position == [i \in 1..n |->
                     1 + Cardinality({j \in 1..n : \/ releases[j].date > releases[i].date
                                                   \/ (releases[j].date = releases[i].date /\ j < i)})] \o <<>>
  IN  [k \in 1..n |-> releases[CHOOSE i \in 1..n : position[i] = k]] \o <<>>

\* mutant: the releases are left in the order the registry lists them
timelineResponse_Unsorted(ecosystem, packageName, releases, limit, url, t) ==
  LET sorted == releases
      totalVersions == Len(sorted)
      limitedReleases == slice0(sorted, limit)
  IN  successResponse(
        [package_name |-> packageName,
         ecosystem |-> ecosystem,
         releases |-> limitedReleases,
         total_versions |-> totalVersions],
        url,
        IF JsLt(limit, Len(sorted)) THEN Some(numberToString(limit)) ELSE None,
        t)

\* mutant: the count is taken after the truncation
timelineResponse_TruncatedCount(ecosystem, packageName, releases, limit, url, t) ==
  LET sorted == sortDescending(releases)
      limitedReleases == slice0(sorted, limit)
      totalVersions == Len(limitedReleases)
  IN  successResponse(
        [package_name |-> packageName,
         ecosystem |-> ecosystem,
         releases |-> limitedReleases,
         total_versions |-> totalVersions],
        url,
        IF JsLt(limit, Len(sorted)) THEN Some(numberToString(limit)) ELSE None,
        t)

\* mutant: the cursor is set as soon as the limit is reached
timelineResponse_CursorAtLimit(ecosystem, packageName, releases, limit, url, t) ==
  LET sorted == sortDescending(releases)
      totalVersions == Len(sorted)
      limitedReleases == slice0(sorted, limit)
  IN  successResponse(
        [package_name |-> packageName,
         ecosystem |-> ecosystem,
         releases |-> limitedReleases,
         total_versions |-> totalVersions],
        url,
        IF JsLt(limit, Len(sorted) + 1) THEN Some(numberToString(limit)) ELSE None,
        t)

\* the part the three adapters share: sort, count, truncate, paginate
timelineResponse(ecosystem, packageName, releases, limit, url, t) ==
  LET sorted == sortDescending(releases)
      totalVersions == Len(sorted)
      limitedReleases == slice0(sorted, limit)
  IN  successResponse(
        [package_name |-> packageName,
         ecosystem |-> ecosystem,
         releases |-> limitedReleases,
         total_versions |-> totalVersions],
        url,
        \* releases.length > limit ? String(limit) : null
        IF JsLt(limit, Len(sorted)) THEN Some(numberToString(limit)) ELSE None,
        t)

npmReleases(data) ==
  LET entries == SelectSeq(data.time, isReleaseKey)
  IN  [i \in 1..Len(entries) |-> ReleaseEntry(entries[i].key, entries[i].date)]

RECURSIVE earliest(_)
\* dates.sort()[0] of a non-empty list of timestamps
earliest(dates) ==
  IF Len(dates) = 1 THEN dates[1] ELSE Min(dates[1], earliest(Tail(dates)))

hasUploadTime(f) == uploadTime(f) # None

pypiUploadTimes(release) ==
  LET timed == SelectSeq(release.files, hasUploadTime)
  IN  [i \in 1..Len(timed) |-> uploadTime(timed[i])[1]]

hasUploadTimes(release) == pypiUploadTimes(release) # <<>>

pypiReleases(data) ==
  LET dated == SelectSeq(data.releases, hasUploadTimes)
  IN  [i \in 1..Len(dated) |-> ReleaseEntry(dated[i].version, earliest(pypiUploadTimes(dated[i])))]

cratesReleases(data) ==
  LET kept == SelectSeq(data.versions, notYanked)
  IN  [i \in 1..Len(kept) |-> ReleaseEntry(kept[i].num, kept[i].created_at)]



(***************************************************************************)
(* fetchRegistry and the adapters' catch blocks.  A reply is what the      *)
(* awaited fetch settles with: a response (status, and for a 2xx status    *)
(* the JSON body), a body that is not JSON, a network failure, or the      *)
(* abort raised by the timeout timer.                                      *)
(***************************************************************************)
Reply(kind, status, data) == [kind |-> kind, status |-> status, data |-> data]

responseOk(status) == status >= 200 /\ status <= 299

\* what encodeURIComponent throws on a lone surrogate
URIError == [name |-> "URIError", status |-> None, message |-> <<"URI malformed">>]

\* what fetchRegistry returns or throws: [ok, data] or [ok, error]
fetchRegistry(reply) ==
  CASE reply.kind = "response" /\ responseOk(reply.status) ->
         [ok |-> TRUE, data |-> reply.data]
    [] reply.kind = "response" /\ ~responseOk(reply.status) ->
         [ok |-> FALSE,
          error |-> [name |-> "Error", status |-> Some(reply.status),
                     message |-> <<"HTTP ", reply.status>>]]
    [] reply.kind = "malformed" ->
         [ok |-> FALSE,
          error |-> [name |-> "SyntaxError", status |-> None,
                     message |-> <<"Unexpected token in JSON">>]]
    [] reply.kind = "network" ->
         [ok |-> FALSE,
          error |-> [name |-> "TypeError", status |-> None, message |-> <<"fetch failed">>]]
    [] reply.kind = "abort" ->
         [ok |-> FALSE,
          error |-> [name |-> "AbortError", status |-> None,
                     message |-> <<"This operation was aborted">>]]

\* the payload lacks one of the fields the adapter dereferences
lacks(data, fields) == \E f \in fields : f \notin DOMAIN data

\* what reading a property of undefined throws
TypeError ==
  [name |-> "TypeError", status |-> None,
   message |-> <<"Cannot read properties of undefined">>]

\* data.versions[latestVersion] with a latest tag and no versions
npmSummaryThrows(data) == data.distTagsLatest # None /\ lacks(data, {"versions"})

RegistryLabel == [npm |-> "npm", pypi |-> "PyPI", crates |-> "crates.io"]

\* catchError without the 429 branch
catchError_NoRateLimit(ecosystem, name, err, t) ==
  IF err.name = "AbortError" THEN
    createErrorResponse("TIMEOUT",
      <<"Request to ", RegistryLabel[ecosystem], " timed out">>,
      [package |-> name], t)
  ELSE IF err.status = Some(404) THEN
    createErrorResponse("INVALID_INPUT",
      <<"Package '", name, "' not found on ", RegistryLabel[ecosystem]>>,
      [package |-> name, ecosystem |-> ecosystem], t)
  ELSE
    createErrorResponse("UPSTREAM_ERROR",
      <<"Failed to fetch from ", RegistryLabel[ecosystem], ": ", err.message>>,
      [package |-> name, originalError |-> err.message], t)

\* the catch block, the same in every adapter up to the registry's label
catchError(ecosystem, name, err, t) ==
  IF err.name = "AbortError" THEN
    createErrorResponse("TIMEOUT",
      <<"Request to ", RegistryLabel[ecosystem], " timed out">>,
      [package |-> name], t)
  ELSE IF err.status = Some(404) THEN
    createErrorResponse("INVALID_INPUT",
      <<"Package '", name, "' not found on ", RegistryLabel[ecosystem]>>,
      [package |-> name, ecosystem |-> ecosystem], t)
  ELSE IF err.status = Some(429) THEN
    createErrorResponse("RATE_LIMITED",
      <<RegistryLabel[ecosystem], " rate limit exceeded">>,
      [package |-> name], t)
  ELSE
    createErrorResponse("UPSTREAM_ERROR",
      <<"Failed to fetch from ", RegistryLabel[ecosystem], ": ", err.message>>,
      [package |-> name, originalError |-> err.message], t)

fetchNpmSummary(name, reply, t) ==
  LET fetched == fetchRegistry(reply)
  IN  IF ~fetched.ok THEN catchError("npm", name, fetched.error, t)
      \* a property read off undefined throws inside the try block
      ELSE IF npmSummaryThrows(fetched.data)
      THEN catchError("npm", name, TypeError, t)
      ELSE successResponse(npmSummary(fetched.data), registryUrl("npm", name), None, t)

fetchPypiSummary(name, reply, t) ==
  LET fetched == fetchRegistry(reply)
  IN  IF ~fetched.ok THEN catchError("pypi", name, fetched.error, t)
      \* a property read off undefined throws inside the try block
      ELSE IF lacks(fetched.data, {"info"})
      THEN catchError("pypi", name, TypeError, t)
      ELSE successResponse(pypiSummary(fetched.data), registryUrl("pypi", name), None, t)

fetchCratesSummary(name, reply, t) ==
  LET fetched == fetchRegistry(reply)
  IN  IF ~fetched.ok THEN catchError("crates", name, fetched.error, t)
      \* a property read off undefined throws inside the try block
      ELSE IF lacks(fetched.data, {"crate", "versions"})
      THEN catchError("crates", name, TypeError, t)
      ELSE successResponse(cratesSummary(fetched.data), registryUrl("crates", name), None, t)

fetchNpmMaintenanceSignals(name, reply, t) ==
  LET fetched == fetchRegistry(reply)
  IN  IF ~fetched.ok THEN catchError("npm", name, fetched.error, t)
      \* a property read off undefined throws inside the try block
      ELSE IF lacks(fetched.data, {"time"}) \/ npmSummaryThrows(fetched.data)
      THEN catchError("npm", name, TypeError, t)
      ELSE successResponse(npmSignals(fetched.data, t), registryUrl("npm", name), None, t)

fetchPypiMaintenanceSignals(name, reply, t) ==
  LET fetched == fetchRegistry(reply)
  IN  IF ~fetched.ok THEN catchError("pypi", name, fetched.error, t)
      \* a property read off undefined throws inside the try block
      ELSE IF lacks(fetched.data, {"releases", "info"})
      THEN catchError("pypi", name, TypeError, t)
      ELSE successResponse(pypiSignals(fetched.data, t), registryUrl("pypi", name), None, t)

fetchCratesMaintenanceSignals(name, reply, t) ==
  LET fetched == fetchRegistry(reply)
  IN  IF ~fetched.ok THEN catchError("crates", name, fetched.error, t)
      \* a property read off undefined throws inside the try block
      ELSE IF lacks(fetched.data, {"versions", "crate"})
      THEN catchError("crates", name, TypeError, t)
      ELSE successResponse(cratesSignals(fetched.data, t), registryUrl("crates", name), None, t)

fetchNpmTimeline(name, limit, reply, t) ==
  LET fetched == fetchRegistry(reply)
  IN  IF ~fetched.ok THEN catchError("npm", name, fetched.error, t)
      \* a property read off undefined throws inside the try block
      ELSE IF lacks(fetched.data, {"time"})
      THEN catchError("npm", name, TypeError, t)
      ELSE timelineResponse("npm", fetched.data.name, npmReleases(fetched.data), limit,
                            registryUrl("npm", name), t)

fetchPypiTimeline(name, limit, reply, t) ==
  LET fetched == fetchRegistry(reply)
  IN  IF ~fetched.ok THEN catchError("pypi", name, fetched.error, t)
      \* a property read off undefined throws inside the try block
      ELSE IF lacks(fetched.data, {"releases", "info"})
      THEN catchError("pypi", name, TypeError, t)
      ELSE timelineResponse("pypi", fetched.data.info.name, pypiReleases(fetched.data), limit,
                            registryUrl("pypi", name), t)

fetchCratesTimeline(name, limit, reply, t) ==
  LET fetched == fetchRegistry(reply)
  IN  IF ~fetched.ok THEN catchError("crates", name, fetched.error, t)
      \* a property read off undefined throws inside the try block
      ELSE IF lacks(fetched.data, {"versions", "crate"})
      THEN catchError("crates", name, TypeError, t)
      ELSE timelineResponse("crates", fetched.data.crate.name, cratesReleases(fetched.data),
                            limit, registryUrl("crates", name), t)

(***************************************************************************)
(* The tools' entry points: validation, limit clamping, dispatch           *)
(***************************************************************************)
Tools == {"package_summary", "release_timeline", "maintenance_signals"}

\* a check that takes a blank string for a name
nameMissing_Untrimmed(name) == name.t # "string" \/ name.s = <<>>

\* !name || typeof name !== 'string' || name.trim().length === 0
nameMissing(name) == name.t # "string" \/ trim(name.s) = <<>>

\* releaseTimeline's limit after validation
effectiveLimit(rawLimit) ==
  LET defaulted == IF rawLimit.t \in {"undefined", "null"}
                   THEN Num(releaseTimelineLimit) ELSE rawLimit
      floored == IF defaulted.t # "number" \/ JsLt(defaulted, 1)
                 THEN Num(releaseTimelineLimit) ELSE defaulted
  IN  IF JsGt(floored, maxReleaseTimelineLimit) THEN Num(maxReleaseTimelineLimit) ELSE floored

\* the adapter the switch dispatches to, resumed with the fetch's reply
adapter(fr, reply, t) ==
  CASE fr.tool = "package_summary" /\ fr.ecosystem = "npm" ->
         fetchNpmSummary(fr.name, reply, t)
    [] fr.tool = "package_summary" /\ fr.ecosystem = "pypi" ->
         fetchPypiSummary(fr.name, reply, t)
    [] fr.tool = "package_summary" /\ fr.ecosystem = "crates" ->
         fetchCratesSummary(fr.name, reply, t)
    [] fr.tool = "maintenance_signals" /\ fr.ecosystem = "npm" ->
         fetchNpmMaintenanceSignals(fr.name, reply, t)
    [] fr.tool = "maintenance_signals" /\ fr.ecosystem = "pypi" ->
         fetchPypiMaintenanceSignals(fr.name, reply, t)
    [] fr.tool = "maintenance_signals" /\ fr.ecosystem = "crates" ->
         fetchCratesMaintenanceSignals(fr.name, reply, t)
    [] fr.tool = "release_timeline" /\ fr.ecosystem = "npm" ->
         fetchNpmTimeline(fr.name, fr.limit, reply, t)
    [] fr.tool = "release_timeline" /\ fr.ecosystem = "pypi" ->
         fetchPypiTimeline(fr.name, fr.limit, reply, t)
    [] fr.tool = "release_timeline" /\ fr.ecosystem = "crates" ->
         fetchCratesTimeline(fr.name, fr.limit, reply, t)

(***************************************************************************)
(* State                                                                   *)
(*   registry  the ecosystem the package lives in and its upstream payload *)
(*   now       the clock at the time the query is answered                 *)
(*   pc        idle | fetching (suspended at await fetch) | reading        *)
(*             (suspended at await response.json()) | done (the promise    *)
(*             resolved) | thrown (the promise rejected)                   *)
(*   call      the input of the query being served                         *)
(*   frame     the locals alive across the await: tool, ecosystem,         *)
(*             trimmed name, effective limit                               *)
(*   result    the envelope the query resolved to                          *)
(*   requests  the URLs of the GETs issued for the query being served      *)
(*   timer     the timeout timer of fetchRegistry: none | armed | cleared  *)
(*             | fired                                                     *)
(*   elapsed   the time since the GET was issued, in ticks of the timer    *)
(*   reply     what the fetch settled with                                 *)
(*   flight    the calls in progress side by side, each with its own       *)
(*             locals, controller and timer (pc .. reply as above)         *)
(*   sessions  the session map of the HTTP transport: entries session id,  *)
(*             transport                                                   *)
(*   transports  the transports createNewSession has made, in order, each  *)
(*             with its sessionId and where it stands                      *)
(*   exchange  the last /mcp request and what handleMcpRequest did with it *)
(***************************************************************************)
VARIABLES registry, now, pc, call, frame, result, requests, timer, elapsed, reply, flight,
          sessions, transports, exchange

vars == <<registry, now, pc, call, frame, result, requests, timer, elapsed, reply, flight,
          sessions, transports, exchange>>

\* the state of the HTTP transport
http == <<sessions, transports, exchange>>

\* the state of the tools
toolState == <<registry, now, pc, call, frame, result, requests, timer, elapsed, reply, flight>>

Input(tool, ecosystem, name, limit) ==
  [tool |-> tool, ecosystem |-> ecosystem, name |-> name, limit |-> limit]

\* the query resolves before any request is made
Resolve(envelope) ==
  /\ pc' = "done"
  /\ frame' = None
  /\ result' = Some(envelope)
  /\ requests' = <<>>
  /\ timer' = "none"
  /\ elapsed' = 0
  /\ reply' = None

\* a call that returned before any request was made
returned(envelope) ==
  [pc |-> "done", frame |-> None, result |-> Some(envelope), requests |-> <<>>,
   timer |-> "none", elapsed |-> 0, reply |-> None]

\* the locals of a call of packageSummary / releaseTimeline / maintenanceSignals
\* once it has run up to the await in fetchRegistry, or to its return or throw
entered(input, t) ==
  IF nameMissing(input.name) THEN
    returned(createErrorResponse("INVALID_INPUT", <<"Package name is required">>,
                                 [provided |-> input.name], t))
  ELSE IF input.ecosystem \notin Ecosystems THEN
    returned(createErrorResponse("INVALID_INPUT",
                                 <<"Unsupported ecosystem: ", input.ecosystem,
                                   ". Supported: npm, pypi, crates">>,
                                 [provided |-> input.ecosystem], t))
  \* the adapter builds the URL before its try block
  ELSE IF malformedURI(trim(input.name.s)) THEN
    [pc |-> "thrown", frame |-> None, result |-> None, requests |-> <<>>,
     timer |-> "none", elapsed |-> 0, reply |-> None]
  ELSE
    [pc |-> "fetching",
     frame |-> Some([tool |-> input.tool,
                     ecosystem |-> input.ecosystem,
                     name |-> trim(input.name.s),
                     limit |-> IF input.tool = "release_timeline"
                               THEN effectiveLimit(input.limit) ELSE Undefined]),
     result |-> None,
     \* fetchRegistry: setTimeout, then fetch(url)
     requests |-> <<registryUrl(input.ecosystem, trim(input.name.s))>>,
     timer |-> "armed",
     elapsed |-> 0,
     reply |-> None]

\* the body of packageSummary / releaseTimeline / maintenanceSignals up to the
\* await in fetchRegistry
Invoke(input) ==
  LET query == entered(input, now)
  IN  /\ pc' = query.pc
      /\ frame' = query.frame
      /\ result' = query.result
      /\ requests' = query.requests
      /\ timer' = query.timer
      /\ elapsed' = query.elapsed
      /\ reply' = query.reply

\* a tool called directly
Call(input) ==
  /\ pc = "idle"
  /\ call' = Some(input)
  /\ Invoke(input)
  /\ UNCHANGED <<registry, now, flight, http>>

\* the server's CallToolRequest handler, called with a tool name and arguments
Handle(input) ==
  /\ pc = "idle"
  /\ call' = Some(input)
  /\ IF input.tool \notin Tools THEN
       Resolve(createErrorResponse("INVALID_INPUT", <<"Unknown tool: ", input.tool>>,
                                   [provided |-> input.tool], now))
     ELSE IF input.ecosystem \notin Ecosystems THEN
       Resolve(createErrorResponse("INVALID_INPUT",
                                   <<"Invalid ecosystem: ", input.ecosystem,
                                     ". Must be one of: npm, pypi, crates">>,
                                   [provided |-> input.ecosystem], now))
     \* the tool's promise rejects and the handler's catch answers
     ELSE IF ~nameMissing(input.name) /\ malformedURI(trim(input.name.s)) THEN
       Resolve(createErrorResponse("INTERNAL_ERROR",
                                   <<"Tool execution failed: ", URIError.message>>,
                                   [tool |-> input.tool], now))
     ELSE Invoke(input)
  /\ UNCHANGED <<registry, now, flight, http>>

\* the handler called without arguments: reading input.ecosystem throws and the
\* handler's catch answers
HandleNoArguments(tool) ==
  /\ pc = "idle"
  /\ tool \in Tools
  /\ call' = Some([tool |-> tool])
  /\ Resolve(createErrorResponse("INTERNAL_ERROR",
                                 <<"Tool execution failed: ", TypeError.message>>,
                                 [tool |-> tool], now))
  /\ UNCHANGED <<registry, now, flight, http>>

\* the registry knows the requested package
known(fr) == fr.ecosystem = registry.ecosystem /\ fr.name = PackageName

\* time passes while the request is in flight; the timer is due at TimeoutTicks
Tick ==
  /\ pc \in {"fetching", "reading"}
  /\ elapsed < TimeoutTicks
  /\ elapsed' = elapsed + 1
  /\ UNCHANGED <<registry, now, pc, call, frame, result, requests, timer, reply, flight, http>>

\* a 2xx response arrives: fetch resolves, response.json() is awaited
Headers ==
  /\ pc = "fetching"
  /\ timer = "armed"
  /\ known(frame[1])
  /\ pc' = "reading"
  /\ UNCHANGED <<registry, now, call, frame, result, requests, timer, elapsed, reply, flight, http>>

\* an adapter that tries once more after a failed fetch
Finish_Retry(settled, timerAfter) ==
  IF fetchRegistry(settled).ok \/ Len(requests) > 1 THEN
    /\ reply' = Some(settled)
    /\ result' = Some(adapter(frame[1], settled, now))
    /\ pc' = "done"
    /\ timer' = timerAfter
    /\ UNCHANGED <<registry, now, call, frame, requests, elapsed, flight, http>>
  ELSE
    /\ reply' = Some(settled)
    /\ requests' = Append(requests, requests[1])
    /\ pc' = "fetching"
    /\ timer' = "armed"
    /\ elapsed' = 0
    /\ UNCHANGED <<registry, now, call, frame, result, flight, http>>

\* mutant: clearTimeout follows the awaits instead of sitting in a finally block
Finish_ClearOnSuccess(settled, timerAfter) ==
  /\ reply' = Some(settled)
  /\ result' = Some(adapter(frame[1], settled, now))
  /\ pc' = "done"
  /\ timer' = IF fetchRegistry(settled).ok THEN timerAfter ELSE timer
  /\ UNCHANGED <<registry, now, call, frame, requests, elapsed, flight, http>>

\* the awaited promise settles with the reply, the finally block clears the
\* timer and the adapter runs to its return
Finish(settled, timerAfter) ==
  /\ reply' = Some(settled)
  /\ result' = Some(adapter(frame[1], settled, now))
  /\ pc' = "done"
  /\ timer' = timerAfter
  /\ UNCHANGED <<registry, now, call, frame, requests, elapsed, flight, http>>

\* the fetch (or the body read) settles before the timer fires
Settle(kind, status) ==
  /\ pc \in {"fetching", "reading"}
  /\ timer = "armed"
  /\ kind # "abort"
  /\ pc = "reading" => (kind = "response" => responseOk(status))
  /\ (kind = "response" /\ responseOk(status)) => known(frame[1])
  /\ (kind = "response" /\ status = 404) => ~known(frame[1])
  /\ kind = "malformed" => known(frame[1])
  /\ Finish(Reply(kind, status,
                  IF kind = "response" /\ responseOk(status) THEN registry.data ELSE None),
            "cleared")

\* record without one of its fields
Without(record, field) == [f \in DOMAIN record \ {field} |-> record[f]]

RequiredFields ==
  [npm |-> {"time"}, pypi |-> {"info", "releases"}, crates |-> {"crate", "versions"}]

\* a 2xx response whose JSON body lacks a field
SettleIncomplete(field) ==
  /\ pc \in {"fetching", "reading"}
  /\ timer = "armed"
  /\ known(frame[1])
  /\ field \in RequiredFields[registry.ecosystem]
  /\ Finish(Reply("response", 200, Without(registry.data, field)), "cleared")

\* a timer that may fire at any time
Abort_Early ==
  /\ pc \in {"fetching", "reading"}
  /\ timer = "armed"
  /\ Finish(Reply("abort", 0, None), "fired")

\* the timer fires: controller.abort() rejects the awaited promise
Abort ==
  /\ pc \in {"fetching", "reading"}
  /\ timer = "armed"
  /\ elapsed = TimeoutTicks
  /\ Finish(Reply("abort", 0, None), "fired")

\* the caller takes the envelope; the next query may start
Return ==
  /\ pc \in {"done", "thrown"}
  /\ pc' = "idle"
  /\ call' = None
  /\ frame' = None
  /\ result' = None
  /\ requests' = <<>>
  /\ timer' = "none"
  /\ elapsed' = 0
  /\ reply' = None
  /\ UNCHANGED <<registry, now, flight, http>>

\* the calls that may be in progress side by side
Queries == {"first", "second"}

\* a call that has not been made
notCalled ==
  [pc |-> "idle", call |-> None, frame |-> None, result |-> None, requests |-> <<>>,
   timer |-> "none", elapsed |-> 0, reply |-> None]

InitWith(registries, clocks) ==
  /\ registry \in registries
  /\ now \in clocks
  /\ pc = "idle"
  /\ call = None
  /\ frame = None
  /\ result = None
  /\ requests = <<>>
  /\ timer = "none"
  /\ elapsed = 0
  /\ reply = None
  /\ flight = [q \in Queries |-> notCalled]
  /\ sessions = {}
  /\ transports = <<>>
  /\ exchange = None

(***************************************************************************)
(* SpecSignals: maintenance_signals over histories that place the release  *)
(* count, the span and the age of the last release on both sides of every  *)
(* threshold of the scorer.                                                *)
(***************************************************************************)
\* <<count, span in days>> of the evenly spread histories
SignalShapes ==
  { <<2, 36>>, <<2, 37>>, <<2, 182>>, <<2, 183>>, <<2, 730>>, <<2, 731>>,
    <<3, 100>>, <<3, 1095>>, <<3, 1096>>, <<4, 365>>, <<4, 366>>, <<6, 500>>,
    <<9, 1000>>, <<10, 100>>, <<10, 1095>>, <<10, 3650>>, <<10, 3651>> }

\* age in days of the last release at RefTick
SignalAges == {30, 90, 365, 400}

SignalDates == {RefTick - Day(400), RefTick - Day(90), RefTick - Day(30), RefTick + Day(1)}

SignalHistories ==
  {Spread(sh[1], sh[2], RefTick - Day(age)) : sh \in SignalShapes, age \in SignalAges}
  \cup SmallHistories(SignalDates)

SignalClocks == {RefTick - 1, RefTick}

InitSignals == InitWith(Registries(SignalHistories), SignalClocks)

NextSignals ==
  \/ Call(Input("maintenance_signals", registry.ecosystem, Str(PackageName), Undefined))
  \/ Settle("response", 200)
  \/ Return

SpecSignals == InitSignals /\ [][NextSignals]_vars

(***************************************************************************)
(* SpecTimeline: the three tools over histories on both sides of the       *)
(* default limit and of the ceiling, with every kind of value a caller may *)
(* pass as limit.                                                          *)
(***************************************************************************)
TimelineShapes == { <<5, 1>>, <<20, 1000>>, <<21, 1000>>, <<100, 4000>>, <<101, 4000>> }

TimelineDates == {RefTick - Day(400), RefTick - Day(30), RefTick - Day(30) + 1}

TimelineHistories ==
  {Spread(sh[1], sh[2], RefTick - Day(30)) : sh \in TimelineShapes}
  \cup SmallHistories(TimelineDates)

Limits ==
  { Undefined, Null, Str(<<"5">>), NaN, Num(-1), Num(0), Halves(1), Num(1), Num(2),
    Halves(5), Num(20), Num(21), Num(100), Halves(201), Num(101), Num(500) }

InitTimeline == InitWith(Registries(TimelineHistories), {RefTick})

NextTimeline ==
  \/ \E limit \in Limits :
       Call(Input("release_timeline", registry.ecosystem, Str(PackageName), limit))
  \/ \E tool \in {"package_summary", "maintenance_signals"} :
       Call(Input(tool, registry.ecosystem, Str(PackageName), Undefined))
  \/ Settle("response", 200)
  \/ Return

SpecTimeline == InitTimeline /\ [][NextTimeline]_vars

(***************************************************************************)
(* SpecFailures: the three tools, called directly and through the server   *)
(* handler, with names and ecosystems that fail validation, a registry     *)
(* that answers with any status, a broken body, an incomplete body or not  *)
(* at all, and the timeout timer running against the answer.               *)
(***************************************************************************)
FailureDates == {RefTick - Day(400), RefTick - Day(30)}

FailureHistories == {<<>>, <<RefTick - Day(30)>>, Spread(3, 400, RefTick - Day(30))}

PaddedName == <<" ">> \o PackageName \o <<" ", " ">>
OtherName == <<"@", "x", "/", "y">>
UnpairedName == <<"p", LoneSurrogate>>

\* what a caller may pass as name
Names ==
  { Str(PackageName), Str(PaddedName), Str(OtherName), Str(UnpairedName), Str(<<>>),
    Str(<<" ", " ">>),
    Undefined, Null, Num(7) }

\* what a caller may pass as ecosystem
EcosystemTags == Ecosystems \cup {"maven"}

ToolNames == Tools \cup {"package_search"}

Statuses == {200, 204, 301, 404, 429, 500, 503}

FailureKinds == {"response", "malformed", "network"}

FailureLimits == {Undefined, Num(1)}

Inputs ==
  {Input(tool, ecosystem, name, limit) :
     tool \in Tools, ecosystem \in EcosystemTags, name \in Names, limit \in FailureLimits}

Requests ==
  {Input(tool, ecosystem, name, limit) :
     tool \in ToolNames, ecosystem \in EcosystemTags, name \in Names, limit \in FailureLimits}

InitFailures == InitWith(Registries(FailureHistories), {RefTick})

NextFailures ==
  \/ \E input \in Inputs : Call(input)
  \/ \E input \in Requests : Handle(input)
  \/ \E tool \in Tools : HandleNoArguments(tool)
  \/ Tick
  \/ Headers
  \/ \E kind \in FailureKinds, status \in Statuses : Settle(kind, status)
  \/ \E field \in {"time", "info", "releases", "crate", "versions"} : SettleIncomplete(field)
  \/ Abort
  \/ Return

SpecFailures == InitFailures /\ [][NextFailures]_vars

(***************************************************************************)
(* SpecPrerelease: isPrerelease over version strings made of a release     *)
(* number, a separator, a word and trailing digits: the markers of the     *)
(* pattern, words that only hold a letter of a marker, and no word at all. *)
(***************************************************************************)
VersionNumbers == {<<"1", ".", "0", ".", "0">>, <<"2", ".", "0", ".", "0">>, <<"1", ".", "0", ".", "1", "8", "6">>}

VersionSeparators == {<<>>, <<"-">>, <<".">>}

VersionWords ==
  { <<>>,
    <<"a", "l", "p", "h", "a">>,
    <<"b", "e", "t", "a">>,
    <<"r", "c">>,
    <<"d", "e", "v">>,
    <<"p", "r", "e">>,
    <<"c", "a", "n", "a", "r", "y">>,
    <<"n", "e", "x", "t">>,
    <<"s", "n", "a", "p", "s", "h", "o", "t">>,
    <<"p", "r", "e", "v", "i", "e", "w">>,
    <<"n", "i", "g", "h", "t", "l", "y">>,
    <<"a">>,
    <<"b">>,
    <<"f", "i", "n", "a", "l">>,
    <<"s", "t", "a", "b", "l", "e">>,
    <<"p", "o", "s", "t">>,
    <<"R", "C">>,
    <<"F", "i", "n", "a", "l">>,
    <<"x">> }

VersionTrails == {<<>>, <<"1">>, <<".", "3">>}

Versions ==
  {n \o sep \o w \o tr :
     n \in VersionNumbers, sep \in VersionSeparators, w \in VersionWords, tr \in VersionTrails}

InitPrerelease ==
  /\ registry \in Registries({<<>>})
  /\ now = RefTick
  /\ pc = "idle"
  /\ call \in {Some([version |-> v]) : v \in Versions}
  /\ frame = None
  /\ result = None
  /\ requests = <<>>
  /\ timer = "none"
  /\ elapsed = 0
  /\ reply = None
  /\ flight = [q \in Queries |-> notCalled]
  /\ sessions = {}
  /\ transports = <<>>
  /\ exchange = None

\* the adapters' is_prerelease: isPrerelease(version)
Classify ==
  /\ pc = "idle"
  /\ "version" \in DOMAIN call[1]
  /\ pc' = "done"
  /\ result' = Some(isPrerelease(call[1].version))
  /\ UNCHANGED <<registry, now, call, frame, requests, timer, elapsed, reply, flight, http>>

NextPrerelease == Classify

SpecPrerelease == InitPrerelease /\ [][NextPrerelease]_vars

(***************************************************************************)
(* SpecRepository: parseRepositoryUrl over repository values: absent, a    *)
(* string or an object with a url, the url made of prefixes, a location    *)
(* and suffixes the normaliser rewrites, once or repeated.                 *)
(***************************************************************************)
RepoPrefixes ==
  { <<>>, GitPlus, GitPlus \o GitPlus, GitScheme, GitPlus \o GitScheme }

RepoLocations ==
  { <<>>,
    <<"h", "t", "t", "p", "s", ":", "/", "/", "g", "i", "t", "h", "u", "b", ".", "c", "o", "m", "/", "o", "/", "r">>,
    <<"g", "i", "t", "h", "u", "b", ".", "c", "o", "m", "/", "o", "/", "r">>,
    GitAt \o <<"g", "i", "t", "h", "u", "b", ".", "c", "o", "m", ":", "o", "/", "r">> }

RepoSuffixes == { <<>>, DotGit, DotGit \o DotGit, <<"/">> }

Repositories ==
  {None}
  \cup {Some(RepoString(p \o l \o s)) :
          p \in RepoPrefixes, l \in RepoLocations, s \in RepoSuffixes}
  \cup {Some(RepoObject(p \o l \o s)) :
          p \in RepoPrefixes, l \in RepoLocations, s \in RepoSuffixes}

InitRepository ==
  /\ registry \in Registries({<<>>})
  /\ now = RefTick
  /\ pc = "idle"
  /\ call \in {Some([repository |-> r]) : r \in Repositories}
  /\ frame = None
  /\ result = None
  /\ requests = <<>>
  /\ timer = "none"
  /\ elapsed = 0
  /\ reply = None
  /\ flight = [q \in Queries |-> notCalled]
  /\ sessions = {}
  /\ transports = <<>>
  /\ exchange = None

\* the summary adapters' repository: parseRepositoryUrl(repo)
Normalize ==
  /\ pc = "idle"
  /\ "repository" \in DOMAIN call[1]
  /\ pc' = "done"
  /\ result' = Some(parseRepositoryUrl(call[1].repository))
  /\ UNCHANGED <<registry, now, call, frame, requests, timer, elapsed, reply, flight, http>>

NextRepository == Normalize

SpecRepository == InitRepository /\ [][NextRepository]_vars

(***************************************************************************)
(* SpecConcurrent: several calls of the tools in progress side by side on  *)
(* the one event loop.  Each call has its own locals, AbortController and  *)
(* timer (fetchRegistry creates them per call); time passes for all of     *)
(* them at once.                                                           *)
(***************************************************************************)
inFlight(q) == flight[q].pc \in {"fetching", "reading"}

\* a tool is called while others may be in flight
Start(q, input) ==
  /\ flight[q].pc = "idle"
  /\ flight' = [flight EXCEPT ![q] = [call |-> Some(input)] @@ entered(input, now)]
  /\ UNCHANGED <<registry, now, pc, call, frame, result, requests, timer, elapsed, reply, http>>

\* time passes for every call in flight; a timer that is due fires first
Pass ==
  /\ \E q \in Queries : inFlight(q)
  /\ \A q \in Queries : inFlight(q) => flight[q].elapsed < TimeoutTicks
  /\ flight' = [q \in Queries |->
                  IF inFlight(q) THEN [flight[q] EXCEPT !.elapsed = @ + 1] ELSE flight[q]]
  /\ UNCHANGED <<registry, now, pc, call, frame, result, requests, timer, elapsed, reply, http>>

\* a 2xx response arrives for one call
Arrive(q) ==
  /\ flight[q].pc = "fetching"
  /\ flight[q].timer = "armed"
  /\ known(flight[q].frame[1])
  /\ flight' = [flight EXCEPT ![q].pc = "reading"]
  /\ UNCHANGED <<registry, now, pc, call, frame, result, requests, timer, elapsed, reply, http>>

\* the call's awaited promise settles, its timer is cleared, its adapter returns
resumed(query, settled, timerAfter, t) ==
  [query EXCEPT !.reply = Some(settled),
                !.result = Some(adapter(query.frame[1], settled, t)),
                !.pc = "done",
                !.timer = timerAfter]

\* one call's fetch or body read settles before its timer fires
Answer(q, kind, status) ==
  /\ inFlight(q)
  /\ flight[q].timer = "armed"
  /\ kind # "abort"
  /\ flight[q].pc = "reading" => (kind = "response" => responseOk(status))
  /\ (kind = "response" /\ responseOk(status)) => known(flight[q].frame[1])
  /\ (kind = "response" /\ status = 404) => ~known(flight[q].frame[1])
  /\ kind = "malformed" => known(flight[q].frame[1])
  /\ flight' = [flight EXCEPT ![q] =
                  resumed(flight[q],
                          Reply(kind, status,
                                IF kind = "response" /\ responseOk(status)
                                THEN registry.data ELSE None),
                          "cleared", now)]
  /\ UNCHANGED <<registry, now, pc, call, frame, result, requests, timer, elapsed, reply, http>>

\* a timer that aborts every call in flight
Expire_Shared(q) ==
  /\ inFlight(q)
  /\ flight[q].timer = "armed"
  /\ flight[q].elapsed = TimeoutTicks
  /\ flight' = [p \in Queries |->
                  IF inFlight(p) THEN resumed(flight[p], Reply("abort", 0, None), "fired", now)
                  ELSE flight[p]]
  /\ UNCHANGED <<registry, now, pc, call, frame, result, requests, timer, elapsed, reply, http>>

\* one call's timer fires: its own controller aborts its own fetch
Expire(q) ==
  /\ inFlight(q)
  /\ flight[q].timer = "armed"
  /\ flight[q].elapsed = TimeoutTicks
  /\ flight' = [flight EXCEPT ![q] = resumed(flight[q], Reply("abort", 0, None), "fired", now)]
  /\ UNCHANGED <<registry, now, pc, call, frame, result, requests, timer, elapsed, reply, http>>

\* the caller takes the envelope (or the rejection) of one call
Collect(q) ==
  /\ flight[q].pc \in {"done", "thrown"}
  /\ flight' = [flight EXCEPT ![q] = notCalled]
  /\ UNCHANGED <<registry, now, pc, call, frame, result, requests, timer, elapsed, reply, http>>

ConcurrentHistories == {Spread(3, 400, RefTick - Day(30))}

ConcurrentNames == {Str(PackageName), Str(OtherName), Str(<<>>)}

ConcurrentStatuses == {200, 404, 500}

ConcurrentKinds == {"response", "network"}

\* one package per ecosystem
ConcurrentRegistries ==
  {[ecosystem |-> "npm", data |-> NpmPayload(h, "deprecated")] : h \in ConcurrentHistories}
  \cup {[ecosystem |-> "pypi", data |-> PypiPayload(h, d)] :
          h \in ConcurrentHistories, d \in {e \in PypiDecorations : e.style = "multi"}}
  \cup {[ecosystem |-> "crates", data |-> CratesPayload(h, "even")] : h \in ConcurrentHistories}

InitConcurrent == InitWith(ConcurrentRegistries, {RefTick})

NextConcurrent ==
  \/ \E q \in Queries, tool \in Tools, name \in ConcurrentNames :
       Start(q, Input(tool, registry.ecosystem, name, Undefined))
  \/ Pass
  \/ \E q \in Queries : Arrive(q)
  \/ \E q \in Queries, kind \in ConcurrentKinds, status \in ConcurrentStatuses :
       Answer(q, kind, status)
  \/ \E q \in Queries : Expire(q)
  \/ \E q \in Queries : Collect(q)

SpecConcurrent == InitConcurrent /\ [][NextConcurrent]_vars

(***************************************************************************)
(* SpecCompletion: the calls of SpecFailures on an event loop that keeps   *)
(* running: time passes while a request is pending and a timer that is due *)
(* fires.  The registry is under no obligation to answer.                  *)
(***************************************************************************)
InitCompletion == InitWith(ConcurrentRegistries, {RefTick})

SpecCompletion ==
  InitCompletion /\ [][NextFailures]_vars /\ WF_vars(Tick) /\ WF_vars(Abort)

(***************************************************************************)
(* SpecSessions: the /mcp endpoint of the HTTP transport.  A request has a *)
(* method and may carry an mcp-session-id header; session ids are strings, *)
(* held as sequences: the id the k-th transport generates is <<k>>, the    *)
(* empty header value is <<>>.  handleMcpRequest answers the request       *)
(* itself (404, 400) or hands it to a transport; what a transport does     *)
(* with a request is the SDK's: it initializes its session on a first      *)
(* request that is an initialize request, refuses or fails it otherwise,   *)
(* and closes on a DELETE it accepts.                                      *)
(***************************************************************************)
\* transports made in a run
MaxTransports == 3

Methods == {"POST", "GET", "DELETE", "PUT"}

Header(value) == [present |-> TRUE, value |-> value]
NoHeader == [present |-> FALSE, value |-> <<>>]

\* randomUUID() of the k-th transport: never the id of another one
randomUUID(k) == <<k>>

\* an id no transport generates
StrangerId == <<0>>

Headers_McpSessionId ==
  {NoHeader, Header(<<>>), Header(StrangerId)} \cup {Header(randomUUID(k)) : k \in 1..MaxTransports}

\* if (sessionId): undefined and the empty string are falsy
truthy(header) == header.present /\ header.value # <<>>

\* sessions.get(sessionId)
get(sessionId) == {e \in sessions : e.id = sessionId}

\* what handleMcpRequest did with a request: the status it answered with, or
\* the transport it handed the request to
Exchange(method, header, status, transport) ==
  [method |-> method, header |-> header, status |-> status, transport |-> transport]

\* createNewSession up to its awaits: a server instance and a transport are
\* made, the first request is handed to the transport
createNewSession(method, header) ==
  /\ Len(transports) < MaxTransports
  /\ transports' = Append(transports, [sessionId |-> None, state |-> "connecting"])
  /\ exchange' = Some(Exchange(method, header, None, Some(Len(transports) + 1)))
  /\ UNCHANGED sessions

\* mutant: a request whose session id is unknown falls through to the branches
\* of a request without one
handleMcpRequest_FallThrough(method, header) ==
  /\ IF truthy(header) /\ get(header.value) # {}
     THEN LET session == CHOOSE e \in get(header.value) : TRUE
          IN  /\ exchange' = Some(Exchange(method, header, None, Some(session.transport)))
              /\ UNCHANGED <<sessions, transports>>
     ELSE IF method = "POST" THEN createNewSession(method, header)
     ELSE /\ exchange' = Some(Exchange(method, header, Some(400), None))
          /\ UNCHANGED <<sessions, transports>>
  /\ UNCHANGED toolState

handleMcpRequest(method, header) ==
  /\ IF truthy(header)
     THEN IF get(header.value) = {}
          THEN /\ exchange' = Some(Exchange(method, header, Some(404), None))
               /\ UNCHANGED <<sessions, transports>>
          ELSE LET session == CHOOSE e \in get(header.value) : TRUE
               IN  /\ exchange' = Some(Exchange(method, header, None, Some(session.transport)))
                   /\ UNCHANGED <<sessions, transports>>
     ELSE IF method = "POST" THEN createNewSession(method, header)
     ELSE /\ exchange' = Some(Exchange(method, header, Some(400), None))
          /\ UNCHANGED <<sessions, transports>>
  /\ UNCHANGED toolState

\* the transport takes its first request for an initialize request: it
\* generates its session id and calls onsessioninitialized, which files it
onsessioninitialized(t) ==
  /\ t \in DOMAIN transports
  /\ transports[t].state = "connecting"
  /\ LET sessionId == randomUUID(t)
     IN  /\ transports' = [transports EXCEPT ![t] = [sessionId |-> Some(sessionId),
                                                      state |-> "initialized"]]
         /\ sessions' = {e \in sessions : e.id # sessionId}
                           \cup {[id |-> sessionId, transport |-> t]}
  /\ UNCHANGED <<exchange, toolState>>

\* the first request is not an initialize request, or connect or
\* handleRequest throws (500): the transport never has a session
Refuse(t) ==
  /\ t \in DOMAIN transports
  /\ transports[t].state = "connecting"
  /\ transports' = [transports EXCEPT ![t].state = "refused"]
  /\ UNCHANGED <<sessions, exchange, toolState>>

\* the transport accepts the DELETE handed to it and closes: its onclose
\* handler deletes transport.sessionId from the map
onclose(t) ==
  /\ t \in DOMAIN transports
  /\ transports[t].state = "initialized"
  /\ exchange # None
  /\ exchange[1].transport = Some(t)
  /\ exchange[1].method = "DELETE"
  /\ transports' = [transports EXCEPT ![t].state = "closed"]
  /\ sessions' = IF transports[t].sessionId # None
                 THEN {e \in sessions : e.id # transports[t].sessionId[1]}
                 ELSE sessions
  /\ UNCHANGED <<exchange, toolState>>

InitSessions == InitWith(ConcurrentRegistries, {RefTick})

NextSessions ==
  \/ \E method \in Methods, header \in Headers_McpSessionId : handleMcpRequest(method, header)
  \/ \E t \in 1..MaxTransports : onsessioninitialized(t)
  \/ \E t \in 1..MaxTransports : Refuse(t)
  \/ \E t \in 1..MaxTransports : onclose(t)

SpecSessions == InitSessions /\ [][NextSessions]_vars

(***************************************************************************)
(* What the claims speak of, read off the state independently of the       *)
(* adapters: the release instants the payload holds for the scorer.        *)
(***************************************************************************)
\* a maintenance_signals query has resolved to a success
SignalsDone ==
  /\ pc = "done"
  /\ frame # None
  /\ frame[1].tool = "maintenance_signals"
  /\ result[1].ok

\* the positions of the payload's list that carry a release date for the scorer:
\* npm every time key but created and modified, PyPI every version whose first
\* upload record is timed, crates every version that is not yanked
ScoredPositions ==
  CASE registry.ecosystem = "npm" ->
         {i \in DOMAIN registry.data.time :
            registry.data.time[i].key \notin {Created, Modified}}
    [] registry.ecosystem = "pypi" ->
         {i \in DOMAIN registry.data.releases :
            /\ registry.data.releases[i].files # <<>>
            /\ \/ registry.data.releases[i].files[1].upload_time_iso_8601 # None
               \/ registry.data.releases[i].files[1].upload_time # None}
    [] registry.ecosystem = "crates" ->
         {i \in DOMAIN registry.data.versions : ~registry.data.versions[i].yanked}

ScoredInstant(i) ==
  CASE registry.ecosystem = "npm" -> registry.data.time[i].date
    [] registry.ecosystem = "pypi" ->
         LET f == registry.data.releases[i].files[1]
         IN  IF f.upload_time_iso_8601 # None THEN f.upload_time_iso_8601[1]
             ELSE f.upload_time[1]
    [] registry.ecosystem = "crates" -> registry.data.versions[i].created_at

ScoredInstants == {ScoredInstant(i) : i \in ScoredPositions}
ScoredCount == Cardinality(ScoredPositions)
LatestInstant == CHOOSE d \in ScoredInstants : \A e \in ScoredInstants : e <= d
EarliestInstant == CHOOSE d \in ScoredInstants : \A e \in ScoredInstants : d <= e

\* whole days from instant a to instant b >= a
WholeDays(a, b) == (b - a) \div TicksPerDay

SpanDays == WholeDays(EarliestInstant, LatestInstant)
AgeDays == IF LatestInstant <= now THEN WholeDays(LatestInstant, now)
           ELSE WholeDays(now, LatestInstant)

Points(rating) == IF rating = "good" THEN 2 ELSE IF rating = "fair" THEN 1 ELSE 0

\* the 0.5 / 0.3 / 0.2 weighting in tenths: 5r + 3f + 2m against 15 and 7
WeightedRating(recency, frequency, maturity) ==
  LET w == 5 * Points(recency) + 3 * Points(frequency) + 2 * Points(maturity)
  IN  IF w >= 15 THEN "good" ELSE IF w >= 7 THEN "fair" ELSE "poor"

(***************************************************************************)
(* C1  Deprecation dominance: whatever the recency, frequency and maturity *)
(* sub-ratings, a maintenance_signals success with is_deprecated = true    *)
(* has maintenance_score = poor.                                           *)
(***************************************************************************)
C1_DeprecationDominance ==
  (SignalsDone /\ result[1].data.is_deprecated)
    => result[1].data.maintenance_score = "poor"

\* a deprecated package whose three sub-ratings are all good
C1_Witness ==
  /\ SignalsDone
  /\ result[1].data.is_deprecated
  /\ result[1].data.score_factors = [recency |-> "good", frequency |-> "good", maturity |-> "good"]
  /\ result[1].data.maintenance_score = "poor"


(***************************************************************************)
(* C2  A package that is not deprecated is scored by the weighting: with   *)
(* good / fair / poor worth 2 / 1 / 0, the score is good when              *)
(* 0.5 r + 0.3 f + 0.2 m >= 1.5, fair when it is >= 0.7, poor otherwise.   *)
(***************************************************************************)
C2_WeightedScore ==
  (SignalsDone /\ ~result[1].data.is_deprecated)
    => result[1].data.maintenance_score =
         WeightedRating(result[1].data.score_factors.recency,
                        result[1].data.score_factors.frequency,
                        result[1].data.score_factors.maturity)

\* the weighted sum is exactly 1.5: 0.5 * 1 + 0.3 * 2 + 0.2 * 2
C2_Witness ==
  /\ SignalsDone
  /\ ~result[1].data.is_deprecated
  /\ result[1].data.score_factors = [recency |-> "fair", frequency |-> "good", maturity |-> "good"]
  /\ result[1].data.maintenance_score = "good"

(***************************************************************************)
(* C3  Recency: good under 90 whole days since the last release, fair      *)
(* under 365, poor otherwise.  With no release date known recency is poor, *)
(* days_since_last_release is -1 and last_release_date is null; otherwise  *)
(* days_since_last_release is the non-negative number of whole days        *)
(* between the clock and the latest release.                               *)
(***************************************************************************)
C3_Recency ==
  SignalsDone =>
    LET d == result[1].data
    IN  IF ScoredCount = 0
        THEN /\ d.last_release_date = None
             /\ d.days_since_last_release = -1
             /\ d.score_factors.recency = "poor"
        ELSE /\ d.last_release_date = Some(LatestInstant)
             /\ d.days_since_last_release = AgeDays
             /\ d.days_since_last_release >= 0
             /\ d.score_factors.recency =
                  IF d.days_since_last_release < 90 THEN "good"
                  ELSE IF d.days_since_last_release < 365 THEN "fair"
                  ELSE "poor"

\* the last release is exactly 90 days old: no longer good
C3_Witness ==
  /\ SignalsDone
  /\ result[1].data.days_since_last_release = 90
  /\ result[1].data.score_factors.recency = "fair"

(***************************************************************************)
(* C4  Frequency: releases per year is 0 with fewer than two release       *)
(* dates; otherwise, with span the whole days between the earliest and the *)
(* latest release, it is 10 * count when span / 365 < 0.1 and              *)
(* count / (span / 365) otherwise.  The sub-rating is good from 4 a year,  *)
(* fair from 1 a year, poor below; releases_per_year reports the value to  *)
(* two decimals (held in hundredths).                                      *)
(***************************************************************************)
C4_Frequency ==
  SignalsDone =>
    LET d == result[1].data
        n == ScoredCount
    IN  IF n < 2
        THEN d.releases_per_year = 0 /\ d.score_factors.frequency = "poor"
        ELSE IF 10 * SpanDays < 365
        THEN /\ d.releases_per_year = 100 * (10 * n)
             /\ d.score_factors.frequency =
                  IF 10 * n >= 4 THEN "good" ELSE IF 10 * n >= 1 THEN "fair" ELSE "poor"
        ELSE /\ 2 * SpanDays * d.releases_per_year <= 73000 * n + SpanDays
             /\ 2 * SpanDays * d.releases_per_year > 73000 * n - SpanDays
             /\ d.score_factors.frequency =
                  IF 365 * n >= 4 * SpanDays THEN "good"
                  ELSE IF 365 * n >= SpanDays THEN "fair"
                  ELSE "poor"

\* four releases over exactly 365 days: 4.00 a year, the lowest good
C4_Witness ==
  /\ SignalsDone
  /\ ScoredCount = 4
  /\ SpanDays = 365
  /\ result[1].data.releases_per_year = 400
  /\ result[1].data.score_factors.frequency = "good"

(***************************************************************************)
(* C5  Maturity: good from 10 known versions, fair from 3, poor below,     *)
(* the number of known versions being the number of release dates the      *)
(* adapter collected (npm: every time key but created and modified;        *)
(* crates: the versions that are not yanked).                              *)
(***************************************************************************)
C5_Maturity ==
  SignalsDone =>
    LET d == result[1].data
    IN  /\ d.total_versions = ScoredCount
        /\ d.score_factors.maturity =
             IF d.total_versions >= 10 THEN "good"
             ELSE IF d.total_versions >= 3 THEN "fair"
             ELSE "poor"

\* a crate with yanked versions left with exactly 3 versions
C5_Witness ==
  /\ SignalsDone
  /\ registry.ecosystem = "crates"
  /\ \E i \in DOMAIN registry.data.versions : registry.data.versions[i].yanked
  /\ result[1].data.total_versions = 3
  /\ result[1].data.score_factors.maturity = "fair"

(***************************************************************************)
(* C6  Scenario B: a package that is not deprecated, with exactly 2        *)
(* releases, the last one 400 days old.                                    *)
(***************************************************************************)
ScenarioB ==
  /\ SignalsDone
  /\ ~result[1].data.is_deprecated
  /\ ScoredCount = 2
  /\ LatestInstant <= now
  /\ AgeDays = 400

\* C6 as claimed: recency, frequency, maturity and the overall score are all
\* poor, whatever the spacing of the two releases
C6_ScenarioB_AsClaimed ==
  ScenarioB =>
    /\ result[1].data.score_factors = [recency |-> "poor", frequency |-> "poor", maturity |-> "poor"]
    /\ result[1].data.maintenance_score = "poor"

\* C6 amended: recency, maturity and the overall score are poor whatever the
\* spacing; frequency follows the spacing of the two releases: good up to 182
\* days apart, fair from 183 to 730 days, poor only beyond 730 days
C6_ScenarioB ==
  ScenarioB =>
    /\ result[1].data.score_factors.recency = "poor"
    /\ result[1].data.score_factors.maturity = "poor"
    /\ result[1].data.maintenance_score = "poor"
    /\ result[1].data.score_factors.frequency =
         IF SpanDays <= 182 THEN "good" ELSE IF SpanDays <= 730 THEN "fair" ELSE "poor"

\* the two releases are 37 days apart: 19.73 a year
C6_Witness ==
  /\ ScenarioB
  /\ SpanDays = 37
  /\ result[1].data.score_factors.frequency = "good"
  /\ result[1].data.maintenance_score = "poor"

(***************************************************************************)
(* C7  Scenario A: a package that is not deprecated, with 10 releases      *)
(* spread evenly over 3 years, the latest 30 days old, has recency good,   *)
(* maturity good and the overall score good, the overall score being the   *)
(* 0.5 / 0.3 / 0.2 weighting of the three sub-ratings.                     *)
(***************************************************************************)
ScenarioA ==
  /\ SignalsDone
  /\ ~result[1].data.is_deprecated
  /\ ScoredCount = 10
  /\ LatestInstant <= now
  /\ AgeDays = 30
  /\ SpanDays = 3 * 365
  /\ ScoredInstants =
       {EarliestInstant + ((LatestInstant - EarliestInstant) * k) \div 9 : k \in 0..9}

C7_ScenarioA ==
  ScenarioA =>
    LET d == result[1].data
    IN  /\ d.score_factors.recency = "good"
        /\ d.score_factors.maturity = "good"
        /\ d.maintenance_score = "good"
        /\ d.maintenance_score =
             WeightedRating(d.score_factors.recency, d.score_factors.frequency,
                            d.score_factors.maturity)

\* 10 releases in 3 years are 3.33 a year: frequency is fair, the sum 1.7
C7_Witness ==
  /\ ScenarioA
  /\ result[1].data.releases_per_year = 333
  /\ result[1].data.score_factors.frequency = "fair"
  /\ result[1].data.maintenance_score = "good"


(***************************************************************************)
(* What the timeline claims speak of: the releases the payload holds for   *)
(* the timeline, counted off the registry.                                 *)
(***************************************************************************)
TimelineDone ==
  /\ pc = "done"
  /\ frame # None
  /\ frame[1].tool = "release_timeline"
  /\ result[1].ok

SummaryDone ==
  /\ pc = "done"
  /\ frame # None
  /\ frame[1].tool = "package_summary"
  /\ result[1].ok

\* npm every time key but created and modified, PyPI every version with a
\* timed upload record, crates every version that is not yanked
KnownReleases ==
  CASE registry.ecosystem = "npm" ->
         {i \in DOMAIN registry.data.time :
            registry.data.time[i].key \notin {Created, Modified}}
    [] registry.ecosystem = "pypi" ->
         {i \in DOMAIN registry.data.releases :
            \E k \in DOMAIN registry.data.releases[i].files :
               \/ registry.data.releases[i].files[k].upload_time_iso_8601 # None
               \/ registry.data.releases[i].files[k].upload_time # None}
    [] registry.ecosystem = "crates" ->
         {i \in DOMAIN registry.data.versions : ~registry.data.versions[i].yanked}

KnownCount == Cardinality(KnownReleases)

\* the limit as the caller passed it
RawLimit == call[1].limit

\* the limit the adapter was entered with
EffectiveLimit == frame[1].limit

(***************************************************************************)
(* C8  Timeline ordering: in every successful release_timeline result the  *)
(* releases are non-increasing by date (releases[i].date >= releases[j]    *)
(* .date for all i < j) and total_versions >= releases.length, in all      *)
(* three ecosystems and for every limit.                                   *)
(***************************************************************************)
C8_TimelineOrdering ==
  TimelineDone =>
    LET releases == result[1].data.releases
    IN  /\ \A i, j \in 1..Len(releases) : i < j => releases[i].date >= releases[j].date
        /\ result[1].data.total_versions >= Len(releases)

\* 101 releases the registry lists oldest first, cut to the default 20
C8_Witness ==
  /\ TimelineDone
  /\ result[1].data.total_versions = 101
  /\ Len(result[1].data.releases) = 20
  /\ result[1].data.releases[1].date > result[1].data.releases[20].date
  /\ result[1].data.releases[1].date = RefTick - Day(30)

(***************************************************************************)
(* C9  Limit clamping, as claimed: the effective limit of release_timeline *)
(* is always within [1, 100]; an absent, zero or negative limit gives the  *)
(* default 20 (exactly 20 entries when more than 20 releases exist); a     *)
(* limit above 100 gives at most 100 entries; a limit within [1, 100]      *)
(* returns exactly min(limit, total_versions) entries.                     *)
(***************************************************************************)
C9_LimitClamping ==
  TimelineDone =>
    LET n == Len(result[1].data.releases)
        total == result[1].data.total_versions
    IN  /\ ~EffectiveLimit.nan
        /\ 2 * 1 <= EffectiveLimit.twice
        /\ EffectiveLimit.twice <= 2 * 100
        /\ (RawLimit.t \in {"undefined", "null"} \/ (RawLimit.t = "number" /\ ~RawLimit.nan /\ RawLimit.twice <= 0))
             => /\ EffectiveLimit = Num(20)
                /\ total > 20 => n = 20
        /\ (RawLimit.t = "number" /\ ~RawLimit.nan /\ RawLimit.twice > 2 * 100)
             => n <= 100
        \* a whole limit within [1, 100]
        /\ (RawLimit.t = "number" /\ ~RawLimit.nan /\ RawLimit.twice % 2 = 0
              /\ RawLimit.twice >= 2 * 1 /\ RawLimit.twice <= 2 * 100)
             => n = (IF RawLimit.twice \div 2 <= total THEN RawLimit.twice \div 2 ELSE total)

(***************************************************************************)
(* C10  Pagination cursor: a release_timeline success has next_cursor      *)
(* equal to the decimal string of the effective limit if and only if the   *)
(* number of known releases exceeds the effective limit, and null          *)
(* otherwise; package_summary and maintenance_signals successes always     *)
(* have next_cursor = null.                                                *)
(***************************************************************************)
C10_PaginationCursor ==
  /\ TimelineDone =>
       LET cursor == result[1].meta.pagination.next_cursor
           exceeds == ~EffectiveLimit.nan /\ 2 * KnownCount > EffectiveLimit.twice
           decimal == Digits(EffectiveLimit.twice \div 2)
                      \o (IF EffectiveLimit.twice % 2 = 1 THEN <<".", "5">> ELSE <<>>)
       IN  IF exceeds THEN cursor = Some(decimal) ELSE cursor = None
  /\ (SummaryDone \/ SignalsDone) => result[1].meta.pagination.next_cursor = None

\* 21 known releases against the default limit: the cursor is "20"
C10_Witness ==
  /\ TimelineDone
  /\ KnownCount = 21
  /\ EffectiveLimit = Num(20)
  /\ result[1].meta.pagination.next_cursor = Some(<<"2", "0">>)


(***************************************************************************)
(* The full date-descending order of the known releases, read off the      *)
(* registry: release i precedes release j when it is later, or as late and *)
(* listed first.                                                           *)
(***************************************************************************)
KnownVersion(i) ==
  CASE registry.ecosystem = "npm" -> registry.data.time[i].key
    [] registry.ecosystem = "pypi" -> registry.data.releases[i].version
    [] registry.ecosystem = "crates" -> registry.data.versions[i].num

\* PyPI: the earliest of the version's upload times
KnownDate(i) ==
  CASE registry.ecosystem = "npm" -> registry.data.time[i].date
    [] registry.ecosystem = "pypi" ->
         LET files == registry.data.releases[i].files
             times == {IF files[k].upload_time_iso_8601 # None
                       THEN files[k].upload_time_iso_8601[1] ELSE files[k].upload_time[1] :
                         k \in {k \in DOMAIN files : \/ files[k].upload_time_iso_8601 # None
                                                     \/ files[k].upload_time # None}}
         IN  CHOOSE d \in times : \A e \in times : d <= e
    [] registry.ecosystem = "crates" -> registry.data.versions[i].created_at

Precedes(i, j) ==
  \/ KnownDate(i) > KnownDate(j)
  \/ (KnownDate(i) = KnownDate(j) /\ i < j)

\* the place of release i in the full order
KnownRank(i) == 1 + Cardinality({j \in KnownReleases : Precedes(j, i)})

(***************************************************************************)
(* C11  total_versions never reflects the truncated view: whatever the     *)
(* supplied limit, release_timeline returns as total_versions the full     *)
(* count of the releases known before truncation (the same for every limit *)
(* on a fixed payload), and the returned releases are exactly the first    *)
(* `limit` entries of the full date-descending order.                      *)
(***************************************************************************)
C11_TotalVersions ==
  TimelineDone =>
    LET releases == result[1].data.releases
    IN  /\ result[1].data.total_versions = KnownCount
        \* as many entries as there are places k <= limit in the full order
        /\ Len(releases) =
             Cardinality({k \in 1..KnownCount :
                            ~EffectiveLimit.nan /\ 2 * k <= EffectiveLimit.twice})
        /\ \A i \in KnownReleases :
             LET k == KnownRank(i)
             IN  k <= Len(releases)
                   => /\ releases[k].version = KnownVersion(i)
                      /\ releases[k].date = KnownDate(i)

\* a crate with yanked versions: 51 of 101 versions known, the default 20 returned
C11_Witness ==
  /\ TimelineDone
  /\ registry.ecosystem = "crates"
  /\ Len(registry.data.versions) = 101
  /\ result[1].data.total_versions = 51
  /\ Len(result[1].data.releases) = 20

(***************************************************************************)
(* What the failure claims speak of                                        *)
(***************************************************************************)
\* a query that issued its request has resolved
FetchDone == pc = "done" /\ frame # None /\ reply # None

\* the query resolved to a failure with this code and without data
FailedWith(code) ==
  /\ ~result[1].ok
  /\ "data" \notin DOMAIN result[1]
  /\ result[1].error.code = code

\* the registry answered with this status
Answered(status) == reply[1].kind = "response" /\ reply[1].status = status

\* the message ends with the text (the template literals put it last)
Carries(message, text) == message # <<>> /\ message[Len(message)] = text

C13_Timeout ==
  /\ FetchDone =>
       /\ timer \in {"fired", "cleared"}
       \* the timer fires only once requestTimeout has elapsed, and aborts
       /\ timer = "fired" =>
            /\ elapsed = TimeoutTicks
            /\ reply[1].kind = "abort"
            /\ FailedWith("TIMEOUT")
       \* an answer before the timer fires clears it and is never a TIMEOUT
       /\ timer = "cleared" =>
            /\ reply[1].kind # "abort"
            /\ result[1].ok \/ result[1].error.code # "TIMEOUT"
  \* nothing is in flight past the deadline with the timer still armed
  /\ pc \in {"fetching", "reading"} => (timer = "armed" /\ elapsed <= TimeoutTicks)
  /\ pc = "idle" => timer = "none"

\* the timer fired on a crate lookup still in flight at the deadline
C13_Witness ==
  /\ FetchDone
  /\ frame[1].ecosystem = "crates"
  /\ frame[1].tool = "maintenance_signals"
  /\ timer = "fired"
  /\ elapsed = TimeoutTicks
  /\ FailedWith("TIMEOUT")
  /\ result[1].error.details = [package |-> PackageName]

(***************************************************************************)
(* C14  No retry: a query of any of the three tools issues at most one GET *)
(* from its call to its return, and once the fetch has failed (timeout,    *)
(* status outside 2xx, network error) the query resolves to that failure   *)
(* at once, without a further request.                                     *)
(***************************************************************************)
C14_NoRetry ==
  [][/\ Len(requests') <= 1
     \* requests are issued when a query starts and forgotten when it returns
     /\ requests' # requests => (pc = "idle" \/ pc' = "idle")
     \* the step on which the fetch settles resolves the query
     /\ (pc \in {"fetching", "reading"} /\ reply' # None) =>
          /\ pc' = "done"
          /\ requests' = requests
          /\ result' # None
          /\ ~fetchRegistry(reply'[1]).ok => ~result'[1].ok]_vars

\* a query resolved to a failure after its single GET
C14_Witness ==
  /\ FetchDone
  /\ frame[1].tool = "package_summary"
  /\ Answered(503)
  /\ FailedWith("UPSTREAM_ERROR")
  /\ requests = <<registryUrl(frame[1].ecosystem, frame[1].name)>>

\* a tool has been called with a query description
Queried == pc # "idle" /\ "name" \in DOMAIN call[1] /\ call[1].tool \in Tools

\* the name is missing, not a string, or nothing but white space
BadName(name) == name.t # "string" \/ \A i \in DOMAIN name.s : name.s[i] \in WhiteSpace

C16_FailureDetails ==
  (/\ Queried
   /\ pc = "done"
   /\ ~result[1].ok
   /\ result[1].error.code \in {"INVALID_INPUT", "UPSTREAM_ERROR", "RATE_LIMITED", "TIMEOUT"})
    => /\ DOMAIN result[1].error = {"code", "message", "details"}
       /\ result[1].error.message # <<>>
       /\ {"package", "ecosystem"} \subseteq DOMAIN result[1].error.details
       /\ result[1].error.details.ecosystem = call[1].ecosystem
       /\ call[1].name.t = "string" =>
            result[1].error.details.package = trim(call[1].name.s)

\* the registry answered 2xx with a body that lacks a required field
Incomplete ==
  /\ reply[1].kind = "response"
  /\ responseOk(reply[1].status)
  /\ \E field \in RequiredFields[frame[1].ecosystem] : field \notin DOMAIN reply[1].data

(***************************************************************************)
(* C17  When a 2xx payload lacks a required field (npm time, PyPI info or  *)
(* releases, crates crate or versions) the query fails with PARSE_ERROR:   *)
(* it neither succeeds with defaulted fields nor fails with another code.  *)
(***************************************************************************)
C17_ParseError == (FetchDone /\ Incomplete) => FailedWith("PARSE_ERROR")

\* types.ts: ErrorCode
ErrorCode ==
  {"INVALID_INPUT", "UPSTREAM_ERROR", "RATE_LIMITED", "TIMEOUT", "PARSE_ERROR", "INTERNAL_ERROR"}

\* the envelope is a full success: data and the four meta fields, no error
SuccessShape(envelope) ==
  /\ envelope.ok
  /\ DOMAIN envelope = {"ok", "data", "meta"}
  /\ DOMAIN envelope.meta = {"source", "retrieved_at", "pagination", "warnings"}
  /\ DOMAIN envelope.meta.pagination = {"next_cursor"}

\* the envelope is a full failure: the error and its time, no data
FailureShape(envelope) ==
  /\ ~envelope.ok
  /\ DOMAIN envelope = {"ok", "error", "meta"}
  /\ DOMAIN envelope.error = {"code", "message", "details"}
  /\ envelope.error.code \in ErrorCode
  /\ DOMAIN envelope.meta = {"retrieved_at"}

(***************************************************************************)
(* C18  No partial success: every query resolves, never throws, to one of  *)
(* two shapes: ok = true with data and meta {source, retrieved_at,         *)
(* pagination.next_cursor, warnings} and no error, or ok = false with      *)
(* error {code, message, details} and meta {retrieved_at} and no data,     *)
(* the code being one of the six of the taxonomy.                          *)
(***************************************************************************)
C18_NoPartialSuccess ==
  /\ pc # "thrown"
  /\ pc = "done" => (SuccessShape(result[1]) \/ FailureShape(result[1]))

\* isPrerelease has classified a version string
Classified == pc = "done" /\ "version" \in DOMAIN call[1]

Letter(c) == \E i \in 1..26 : c \in {UpperChars[i], LowerChars[i]}

\* the marker stands at i as a token: a whole run of letters, in any case
TokenAt(s, i, marker) ==
  /\ i + Len(marker) - 1 <= Len(s)
  /\ \A k \in 1..Len(marker) : toLowerCase(s[i + k - 1]) = marker[k]
  /\ i > 1 => ~Letter(s[i - 1])
  /\ i + Len(marker) <= Len(s) => ~Letter(s[i + Len(marker)])

HasMarkerToken(s) ==
  \E i \in 1..Len(s) : \E marker \in PrereleaseMarkers : TokenAt(s, i, marker)

(***************************************************************************)
(* C19  isPrerelease is false for "1.0.0", true for "1.0.0-alpha1", true   *)
(* for "2.0.0-rc.3" and false for "1.0.0-final"; a version is classified   *)
(* prerelease only if it holds one of the listed markers as a token, not   *)
(* merely the letter a or b inside another word.                           *)
(***************************************************************************)
C19_Prerelease ==
  Classified =>
    LET version == call[1].version
    IN  /\ version = <<"1", ".", "0", ".", "0">> => ~result[1]
        /\ version = <<"1", ".", "0", ".", "0", "-", "a", "l", "p", "h", "a", "1">> => result[1]
        /\ version = <<"2", ".", "0", ".", "0", "-", "r", "c", ".", "3">> => result[1]
        /\ version = <<"1", ".", "0", ".", "0", "-", "f", "i", "n", "a", "l">> => ~result[1]
        /\ result[1] => HasMarkerToken(version)

\* parseRepositoryUrl has normalised a repository value
Normalized == pc = "done" /\ "repository" \in DOMAIN call[1]

\* a normalised URL handed back as a repository value
AsRepository(url) == IF url = None THEN None ELSE Some(RepoString(url[1]))

(***************************************************************************)
(* C20  Repository URL normalisation is idempotent: for every repository   *)
(* value x, parseRepositoryUrl(parseRepositoryUrl(x)) =                    *)
(* parseRepositoryUrl(x), also with repeated git+ prefixes, repeated .git  *)
(* suffixes, git:// schemes and git@host:path forms.                       *)
(***************************************************************************)
C20_Idempotent ==
  Normalized => parseRepositoryUrl(AsRepository(result[1])) = result[1]

(***************************************************************************)
(* What the per-ecosystem claims speak of, read off the registry payload   *)
(***************************************************************************)
\* a query of the tool has resolved to a success for a package of the ecosystem
Succeeded(tool, ecosystem) ==
  /\ pc = "done"
  /\ frame # None
  /\ frame[1].tool = tool
  /\ registry.ecosystem = ecosystem
  /\ result[1].ok

\* the k-th smallest member of a set of positions
Nth(positions, k) == CHOOSE i \in positions : Cardinality({j \in positions : j < i}) = k - 1

\* the latest of a set of instants, null when there is none
Latest(instants) ==
  IF instants = {} THEN None ELSE Some(CHOOSE d \in instants : \A e \in instants : e <= d)

\* npm: the positions of the time map that hold a version
NpmVersionKeys ==
  {i \in DOMAIN registry.data.time :
     registry.data.time[i].key # <<"c", "r", "e", "a", "t", "e", "d">>
     /\ registry.data.time[i].key # <<"m", "o", "d", "i", "f", "i", "e", "d">>}

NpmVersionDates ==
  [k \in 1..Cardinality(NpmVersionKeys) |-> registry.data.time[Nth(NpmVersionKeys, k)].date]

(***************************************************************************)
(* C21  npm: the reserved time keys created and modified are never part of *)
(* the release set.  They are in no release_timeline entry and not counted *)
(* in total_versions, releases_per_year or last_release_date of            *)
(* maintenance_signals; every other key of the time map is included        *)
(* exactly once.                                                           *)
(***************************************************************************)
C21_NpmReservedKeys ==
  /\ Succeeded("release_timeline", "npm") =>
       LET releases == result[1].data.releases
       IN  /\ \A k \in DOMAIN releases : releases[k].version \notin {Created, Modified}
           /\ result[1].data.total_versions = Cardinality(NpmVersionKeys)
           /\ \A i \in NpmVersionKeys :
                LET places == {k \in DOMAIN releases :
                                 /\ releases[k].version = registry.data.time[i].key
                                 /\ releases[k].date = registry.data.time[i].date}
                IN  /\ Cardinality(places) <= 1
                    \* nothing was cut off: the key is there
                    /\ Len(releases) = Cardinality(NpmVersionKeys) => Cardinality(places) = 1
  /\ Succeeded("maintenance_signals", "npm") =>
       /\ result[1].data.total_versions = Cardinality(NpmVersionKeys)
       /\ result[1].data.last_release_date =
            Latest({NpmVersionDates[k] : k \in DOMAIN NpmVersionDates})
       /\ result[1].data.releases_per_year =
            roundHundredths(calculateReleasesPerYear(NpmVersionDates))

\* five versions beside created and modified, all five in the timeline
C21_Witness ==
  /\ Succeeded("release_timeline", "npm")
  /\ Len(registry.data.time) = 7
  /\ result[1].data.total_versions = 5
  /\ Len(result[1].data.releases) = 5

\* the release dates of the known releases, PyPI's being the earliest upload
KnownDates == [k \in 1..KnownCount |-> KnownDate(Nth(KnownReleases, k))]

\* whole days between two instants
DaysApart(a, b) == IF a <= b THEN WholeDays(a, b) ELSE WholeDays(b, a)

(***************************************************************************)
(* C22  PyPI: when a version has several upload records its release date   *)
(* is the earliest of their timestamps, in the release_timeline entries    *)
(* and in the release dates maintenance_signals uses (last_release_date,   *)
(* days_since_last_release, releases_per_year).                            *)
(***************************************************************************)
C22_PypiEarliestUpload ==
  /\ Succeeded("release_timeline", "pypi") =>
       \A k \in DOMAIN result[1].data.releases :
          \E i \in KnownReleases :
             /\ KnownVersion(i) = result[1].data.releases[k].version
             /\ KnownDate(i) = result[1].data.releases[k].date
  /\ Succeeded("maintenance_signals", "pypi") =>
       LET last == Latest({KnownDates[k] : k \in DOMAIN KnownDates})
       IN  /\ result[1].data.last_release_date = last
           /\ last # None => result[1].data.days_since_last_release = DaysApart(last[1], now)
           /\ result[1].data.releases_per_year =
                roundHundredths(calculateReleasesPerYear(KnownDates))

\* crates: the positions of the versions that are not yanked
Unyanked == {i \in DOMAIN registry.data.versions : ~registry.data.versions[i].yanked}

UnyankedDates ==
  [k \in 1..Cardinality(Unyanked) |-> registry.data.versions[Nth(Unyanked, k)].created_at]

(***************************************************************************)
(* C23  crates: yanked versions are excluded from the release timeline and *)
(* from the release dates used for scoring; is_deprecated is true exactly  *)
(* when every known version is yanked (no viable version remains), and     *)
(* then the maintenance_score is poor.                                     *)
(***************************************************************************)
C23_CratesYanked ==
  /\ Succeeded("release_timeline", "crates") =>
       /\ result[1].data.total_versions = Cardinality(Unyanked)
       /\ \A k \in DOMAIN result[1].data.releases :
            \E i \in Unyanked :
               /\ registry.data.versions[i].num = result[1].data.releases[k].version
               /\ registry.data.versions[i].created_at = result[1].data.releases[k].date
  /\ Succeeded("maintenance_signals", "crates") =>
       /\ result[1].data.total_versions = Cardinality(Unyanked)
       /\ result[1].data.last_release_date =
            Latest({UnyankedDates[k] : k \in DOMAIN UnyankedDates})
       /\ result[1].data.releases_per_year =
            roundHundredths(calculateReleasesPerYear(UnyankedDates))
       /\ result[1].data.is_deprecated <=> Unyanked = {}
       /\ result[1].data.is_deprecated => result[1].data.maintenance_score = "poor"

\* a crate whose three versions are all yanked
C23_Witness ==
  /\ Succeeded("maintenance_signals", "crates")
  /\ Len(registry.data.versions) = 3
  /\ Unyanked = {}
  /\ result[1].data.is_deprecated
  /\ result[1].data.total_versions = 0
  /\ result[1].data.last_release_date = None
  /\ result[1].data.maintenance_score = "poor"

\* the envelope the call would resolve to when run alone with the same answer
AloneEnvelope(input, answer) ==
  LET alone == entered(input, now)
  IN  IF alone.pc = "fetching" THEN Some(adapter(alone.frame[1], answer[1], now))
      ELSE alone.result

\* what a call holds apart from the time it has been waiting
Progress(query) ==
  <<query.pc, query.call, query.frame, query.result, query.requests, query.timer, query.reply>>

\* a call that is over resolved as it would have alone, to its own request,
\* and was aborted by nothing but its own timer
Independent(q) ==
  flight[q].pc = "done" =>
    /\ flight[q].result = AloneEnvelope(flight[q].call[1], flight[q].reply)
    /\ flight[q].frame # None =>
         /\ flight[q].requests =
              <<registryUrl(flight[q].call[1].ecosystem, trim(flight[q].call[1].name.s))>>
         /\ flight[q].reply[1].kind = "abort" <=> flight[q].timer = "fired"
         /\ flight[q].timer = "fired" => flight[q].elapsed = TimeoutTicks

(***************************************************************************)
(* C24  Concurrent queries are independent: in any interleaving of         *)
(* several in-flight queries each query's envelope is the one it produces  *)
(* when run alone against the same upstream answer, and the timeout or     *)
(* failure of one query never aborts, delays or alters another query's     *)
(* request.                                                                *)
(***************************************************************************)
C24_Independence ==
  [][\* in the state every step starts from (a call that is over can be collected)
     /\ \A q \in Queries : Independent(q)
     \* a step of one call leaves every other call as it was, waiting time included
     /\ \A q \in Queries :
          Progress(flight'[q]) # Progress(flight[q]) =>
            \A p \in Queries \ {q} : flight'[p] = flight[p]]_vars

\* one call timed out while the other, started later, went on to succeed
C24_Witness ==
  /\ flight["first"].pc = "done"
  /\ flight["first"].frame # None
  /\ flight["first"].timer = "fired"
  /\ flight["first"].result[1].error.code = "TIMEOUT"
  /\ flight["second"].pc = "done"
  /\ flight["second"].frame # None
  /\ flight["second"].elapsed < TimeoutTicks
  /\ flight["second"].result[1].ok

(***************************************************************************)
(* C25  Every query eventually completes with an envelope: the only        *)
(* suspension point is the single outbound fetch, and once it is started   *)
(* either the registry's response settles or the timeout timer fires and   *)
(* aborts it, so no query stays pending forever.                           *)
(***************************************************************************)
C25_Completion ==
  \* a query that is called returns an envelope at once or suspends at its fetch
  /\ [][(pc = "idle" /\ pc' # "idle") =>
          \/ (pc' = "done" /\ result' # None)
          \/ (pc' = "fetching" /\ Len(requests') = 1 /\ timer' = "armed")]_vars
  \* and a suspended query resolves to an envelope
  /\ (pc \in {"fetching", "reading"}) ~> (pc = "done" /\ result # None)

(***************************************************************************)
(* C26  Bounds of the overall score by recency: for a package that is not  *)
(* deprecated, recency = poor never yields an overall score of good and    *)
(* recency = good never yields an overall score of poor, for every         *)
(* combination of frequency and maturity: in the scorer itself, and in     *)
(* every maintenance_signals success.                                      *)
(***************************************************************************)
C26_RecencyBounds ==
  /\ \A frequency \in MaintenanceRating, maturity \in MaintenanceRating :
       /\ calculateOverallScore("poor", frequency, maturity, FALSE) \in {"fair", "poor"}
       /\ calculateOverallScore("good", frequency, maturity, FALSE) \in {"good", "fair"}
  /\ (SignalsDone /\ ~result[1].data.is_deprecated) =>
       LET d == result[1].data
       IN  /\ d.score_factors.recency = "poor" => d.maintenance_score \in {"fair", "poor"}
           /\ d.score_factors.recency = "good" => d.maintenance_score \in {"good", "fair"}

\* recency poor with frequency and maturity both good: 0.6 + 0.4 = 1.0, fair
C26_Witness ==
  /\ SignalsDone
  /\ ~result[1].data.is_deprecated
  /\ result[1].data.score_factors = [recency |-> "poor", frequency |-> "good", maturity |-> "good"]
  /\ result[1].data.maintenance_score = "fair"

\* recency good with frequency and maturity both poor: 1.0, fair
C26_WitnessGood ==
  /\ SignalsDone
  /\ ~result[1].data.is_deprecated
  /\ result[1].data.score_factors = [recency |-> "good", frequency |-> "poor", maturity |-> "poor"]
  /\ result[1].data.maintenance_score = "fair"

(***************************************************************************)
(* C27  Short-history extrapolation: with at least two releases whose      *)
(* earliest and latest are at most 36 whole days apart, releases_per_year  *)
(* is 10 * count, at least 20, and the frequency sub-rating is good; with  *)
(* a span of 37 days or more the value is count / (span / 365), which is   *)
(* below 10 * count: the value jumps at the boundary.  releases_per_year   *)
(* is held in hundredths.                                                  *)
(***************************************************************************)
C27_ShortHistory ==
  (SignalsDone /\ ScoredCount >= 2) =>
    LET d == result[1].data
        n == ScoredCount
    IN  IF SpanDays <= 36
        THEN /\ d.releases_per_year = 100 * (10 * n)
             /\ d.releases_per_year >= 100 * 20
             /\ d.score_factors.frequency = "good"
        ELSE /\ 2 * SpanDays * d.releases_per_year <= 73000 * n + SpanDays
             /\ 2 * SpanDays * d.releases_per_year > 73000 * n - SpanDays
             /\ d.releases_per_year < 100 * (10 * n)

\* two releases 36 whole days apart: 20.00 a year
C27_Witness ==
  /\ SignalsDone
  /\ ScoredCount = 2
  /\ SpanDays = 36
  /\ result[1].data.releases_per_year = 2000
  /\ result[1].data.score_factors.frequency = "good"

\* two releases 37 days apart: 19.73 a year
C27_WitnessBeyond ==
  /\ SignalsDone
  /\ ScoredCount = 2
  /\ SpanDays = 37
  /\ result[1].data.releases_per_year = 1973

(***************************************************************************)
(* C28  Timer hygiene in fetchRegistry: on every exit path (2xx success,   *)
(* non-2xx status, network error, body-parse error, abort) the timeout     *)
(* timer is no longer pending when the call has returned: it was cleared,  *)
(* or it has fired and that firing is the abort the call ended with.  A    *)
(* timer is pending only while its fetch or body read is awaited, and it   *)
(* fires only then, at its expiry.                                         *)
(***************************************************************************)
C28_TimerHygiene ==
  /\ [](FetchDone =>
          /\ timer \in {"cleared", "fired"}
          /\ timer = "fired" <=> reply[1].kind = "abort")
  /\ [](timer = "armed" => pc \in {"fetching", "reading"})
  /\ [][timer' = "fired" =>
          (timer = "armed" /\ pc \in {"fetching", "reading"} /\ elapsed = TimeoutTicks)]_vars

\* the fetch rejected with a network error: the exit is by the throw
C28_Witness ==
  /\ FetchDone
  /\ reply[1].kind = "network"
  /\ ~result[1].ok
  /\ timer = "cleared"

\* the other exits: a 2xx success, a non-2xx status, a body that does not parse, the abort
C28_WitnessSuccess == FetchDone /\ Answered(200) /\ result[1].ok /\ timer = "cleared"
C28_WitnessStatus == FetchDone /\ Answered(500) /\ timer = "cleared"
C28_WitnessBody == FetchDone /\ reply[1].kind = "malformed" /\ timer = "cleared"
C28_WitnessAbort == FetchDone /\ reply[1].kind = "abort" /\ timer = "fired"

\* a call of the tool has resolved to a success
Got(q, tool) ==
  /\ flight[q].pc = "done"
  /\ flight[q].frame # None
  /\ flight[q].frame[1].tool = tool
  /\ flight[q].result[1].ok

(***************************************************************************)
(* C29  Cross-tool consistency: for the same upstream payload of any       *)
(* ecosystem, maintenance_signals.total_versions equals                    *)
(* release_timeline.total_versions, and                                    *)
(* maintenance_signals.last_release_date is the instant of the first (most *)
(* recent) release_timeline entry.                                         *)
(***************************************************************************)
C29_CrossTool ==
  \A p \in Queries, q \in Queries :
     (Got(p, "release_timeline") /\ Got(q, "maintenance_signals")) =>
       LET timeline == flight[p].result[1].data
           signals == flight[q].result[1].data
       IN  /\ signals.total_versions = timeline.total_versions
           /\ timeline.releases # <<>> =>
                signals.last_release_date = Some(timeline.releases[1].date)

\* the request carries a session id: the header is there and not empty
Carrying(header) == header.present /\ header.value # <<>>

\* the session id has an entry in the map
Mapped(sessionId) == \E e \in sessions : e.id = sessionId

(***************************************************************************)
(* C30  HTTP session map: over any sequence of /mcp requests, a session id *)
(* is in the session map only between its transport's session-initialized *)
(* callback and that transport's close; a request carrying an              *)
(* mcp-session-id that is not in the map is answered 404 and never creates *)
(* a session; a request without a session id creates a new session only    *)
(* when its method is POST and is answered 400 otherwise.                  *)
(***************************************************************************)
C30_SessionMap ==
  \* an entry is the id of a transport that is initialized and not closed
  /\ [](\A e \in sessions :
          /\ e.transport \in DOMAIN transports
          /\ transports[e.transport].state = "initialized"
          /\ transports[e.transport].sessionId = Some(e.id))
  \* entries come with the callback and go with the close
  /\ [][(\A new \in sessions' \ sessions :
            /\ transports[new.transport].state = "connecting"
            /\ transports'[new.transport].state = "initialized")
         /\ (\A old \in sessions \ sessions' :
               transports'[old.transport].state = "closed")]_vars
  \* what a request gets
  /\ [][exchange' # exchange =>
          LET r == exchange'[1]
          IN  IF Carrying(r.header)
              THEN ~Mapped(r.header.value) =>
                     /\ r.status = Some(404)
                     /\ sessions' = sessions
                     /\ transports' = transports
              ELSE IF r.method = "POST"
              THEN /\ Len(transports') = Len(transports) + 1
                   /\ r.transport = Some(Len(transports'))
                   /\ r.status = None
              ELSE /\ r.status = Some(400)
                   /\ sessions' = sessions
                   /\ transports' = transports]_vars
  \* a transport, and with it a session, is made for such a POST only
  /\ [][Len(transports') > Len(transports) =>
          (exchange'[1].method = "POST" /\ ~Carrying(exchange'[1].header))]_vars

\* the id of a closed session is sent again while another session is open: 404
C30_Witness ==
  /\ exchange # None
  /\ exchange[1].status = Some(404)
  /\ sessions # {}
  /\ \E t \in DOMAIN transports :
       /\ transports[t].state = "closed"
       /\ exchange[1].header = Header(transports[t].sessionId[1])

====
